---------------------------- MODULE Spec2Model ----------------------------
(***************************************************************************)
(* Model of the package cuchillo_de_gaucho: the spatial selection of       *)
(* dfUtils.spatial_select_geodataframe, and below it the helpers of        *)
(* winUtils, pgUtils and ioUtils that act on the file system, on a         *)
(* PostgreSQL database and on external programs.                           *)
(*                                                                         *)
(* A GeoDataFrame is a record                                              *)
(*    [crs, gcol, cols, rows]                                              *)
(* crs  : the reference frame tag,                                         *)
(* gcol : the name of the active geometry column,                          *)
(* cols : the column names, in order (the geometry column is one of them), *)
(* rows : the records, in order; a record is [idx, vals], idx its index    *)
(*        label and vals its values, aligned with cols.                    *)
(* Objects live on a heap (a sequence of frames, an object's id is its     *)
(* position), so that a copy and an alias are different things.            *)
(*                                                                         *)
(* A geometry is an axis-parallel box [x1, y1, x2, y2] (a point when the   *)
(* box is degenerate) grown by a buffer radius r, or the empty polygon.    *)
(* Coordinates are integers; one unit is half a metre, so that             *)
(* tolerance_m = 1 is the function's default of 0.5.                       *)
(***************************************************************************)
EXTENDS Integers, Sequences, FiniteSets, TLC

VARIABLES heap, target, mask, params, pre, out, pc, fs, db, procs, log, call

\* the state of a caller of spatial_select_geodataframe
selection == <<heap, target, mask, params, pre, out, pc>>

\* what lies outside the process: the file system, the database, the external
\* programs that were started, and the log
world == <<fs, db, procs, log>>

vars == <<heap, target, mask, params, pre, out, pc, fs, db, procs, log, call>>

\* Python's None
None == "None"

\* no call has been made yet
NoCall == [fn |-> None, raised |-> None]

(***************************************************************************)
(* Bounds of the model.                                                    *)
(***************************************************************************)
MaxTargetRows == 2
MaxMaskRows == 2
MaxTol == 1

(***************************************************************************)
(* Small helpers on sequences and integers.                                *)
(***************************************************************************)
Max2(a, b) == IF a >= b THEN a ELSE b

Max3(a, b, c) == Max2(a, Max2(b, c))

SetMin(S) == CHOOSE m \in S : \A n \in S : m <= n

SetMax(S) == CHOOSE m \in S : \A n \in S : m >= n

RECURSIVE SortedSeq(_)
SortedSeq(S) == IF S = {} THEN << >>
                ELSE LET m == SetMin(S) IN <<m>> \o SortedSeq(S \ {m})

\* the subsequence of s at the positions in P, in order
Pick(s, P) == LET ix == SortedSeq(P) IN [k \in 1..Len(ix) |-> s[ix[k]]]

Range(s) == {s[i] : i \in 1..Len(s)}

SeqsUpTo(S, n) == UNION {[1..k -> S] : k \in 0..n}

IndexOf(s, x) == CHOOSE i \in 1..Len(s) : s[i] = x

(***************************************************************************)
(* Geometry.                                                               *)
(***************************************************************************)
Point(x, y) == [x1 |-> x, y1 |-> y, x2 |-> x, y2 |-> y, r |-> 0, empty |-> FALSE]

Box(xa, ya, xb, yb) == [x1 |-> xa, y1 |-> ya, x2 |-> xb, y2 |-> yb, r |-> 0, empty |-> FALSE]

\* the line from (xa, ya) to (xb, yb), along one of the axes
Line(xa, ya, xb, yb) == [x1 |-> xa, y1 |-> ya, x2 |-> xb, y2 |-> yb, r |-> 0, empty |-> FALSE]

EmptyPolygon == [x1 |-> 0, y1 |-> 0, x2 |-> 0, y2 |-> 0, r |-> 0, empty |-> TRUE]

IsPoint(g) == ~g.empty /\ g.r = 0 /\ g.x1 = g.x2 /\ g.y1 = g.y2

IsLine(g) == ~g.empty /\ g.r = 0 /\ (g.x1 = g.x2) # (g.y1 = g.y2)

\* GeoSeries.buffer(distance): a positive distance grows the geometry; a zero
\* distance leaves a polygon as it is and turns a point or a line into the empty
\* polygon.
Buffer(g, d) ==
    IF g.empty THEN EmptyPolygon
    ELSE IF d = 0 THEN (IF g.r = 0 /\ (g.x1 = g.x2 \/ g.y1 = g.y2) THEN EmptyPolygon ELSE g)
    ELSE [g EXCEPT !.r = @ + d]

\* gap between the two boxes along one axis (0 when they overlap on that axis)
NearGapX(a, b) == Max3(0, b.x1 - a.x2, a.x1 - b.x2)

NearGapY(a, b) == Max3(0, b.y1 - a.y2, a.y1 - b.y2)

\* how far box a sticks out of box b along one axis (0 when it does not)
FarGapX(a, b) == Max3(0, b.x1 - a.x1, a.x2 - b.x2)

FarGapY(a, b) == Max3(0, b.y1 - a.y1, a.y2 - b.y2)

\* A buffered box is the box grown by r with its corners rounded; GEOS draws each
\* quarter circle as a polygon inscribed in it.  A grid point at offset (dx, dy)
\* from the box lies in the closed (open) buffered polygon as below: beside an edge
\* the limit is r; off a corner a grid point on the circle is no vertex of the
\* inscribed polygon and lies outside, and for r < 10 no grid point lies between
\* the polygon and the circle.
InClosed(dx, dy, r) == IF dx = 0 \/ dy = 0 THEN dx + dy <= r ELSE dx * dx + dy * dy < r * r

InOpen(dx, dy, r) == IF dx = 0 \/ dy = 0 THEN dx + dy < r ELSE dx * dx + dy * dy < r * r

\* a (an unbuffered point, line or box) intersects b
Intersects(a, b) ==
    /\ ~a.empty /\ ~b.empty
    /\ InClosed(NearGapX(a, b), NearGapY(a, b), b.r)

\* within taken as covered-by: a point on the boundary of b and a line along
\* it count
WithinOrOnBoundary(a, b) ==
    /\ ~a.empty /\ ~b.empty
    /\ InClosed(FarGapX(a, b), FarGapY(a, b), b.r)

\* the line a runs along a straight side of the polygon b: the sides of a
\* buffered geometry that are straight lie at the distance r from the sides
\* of the box, and the pieces that round its corners run along no axis
AlongSide(a, b) ==
    \/ a.y1 = a.y2 /\ a.y1 \in {b.y1 - b.r, b.y2 + b.r}
    \/ a.x1 = a.x2 /\ a.x1 \in {b.x1 - b.r, b.x2 + b.r}

\* a (an unbuffered point, line or box) is within b: no part of a outside b, and
\* the interiors meet.  The interior of a point is the point, the interior of a
\* line is the line without its ends.  A point on the boundary of a polygon and
\* a line that runs along its boundary are not within it; a line whose ends
\* alone are on the boundary is.  An end of a line is not within the line.
Within(a, b) ==
    /\ ~a.empty /\ ~b.empty
    /\ IF IsPoint(a)
       THEN IF IsPoint(b) THEN a.x1 = b.x1 /\ a.y1 = b.y1
            ELSE IF IsLine(b)
            THEN \/ a.y1 = b.y1 /\ b.y1 = b.y2 /\ b.x1 < a.x1 /\ a.x1 < b.x2
                 \/ a.x1 = b.x1 /\ b.x1 = b.x2 /\ b.y1 < a.y1 /\ a.y1 < b.y2
            ELSE IF b.r = 0 THEN b.x1 < a.x1 /\ a.x1 < b.x2 /\ b.y1 < a.y1 /\ a.y1 < b.y2
            ELSE InOpen(NearGapX(a, b), NearGapY(a, b), b.r)
       ELSE IF IsLine(a)
       THEN /\ InClosed(FarGapX(a, b), FarGapY(a, b), b.r)
            /\ IsLine(b) \/ ~AlongSide(a, b)
       ELSE InClosed(FarGapX(a, b), FarGapY(a, b), b.r)

Predicates == {"within", "intersects"}

Holds(predicate, a, b) == IF predicate = "within" THEN Within(a, b) ELSE Intersects(a, b)

(***************************************************************************)
(* Reference frames.  The two frames differ by their false origin, so a    *)
(* reprojection moves every coordinate.                                    *)
(***************************************************************************)
Frames == {"EPSG:31370", "EPSG:3812"}

FalseEasting(f) == IF f = "EPSG:31370" THEN 0 ELSE 20

FalseNorthing(f) == IF f = "EPSG:31370" THEN 0 ELSE 30

Move(g, dx, dy) ==
    IF g.empty THEN g
    ELSE [g EXCEPT !.x1 = @ + dx, !.x2 = @ + dx, !.y1 = @ + dy, !.y2 = @ + dy]

Reproject(g, from, to) ==
    IF from = to THEN g
    ELSE Move(g, FalseEasting(to) - FalseEasting(from), FalseNorthing(to) - FalseNorthing(from))

(***************************************************************************)
(* GeoDataFrame operations.                                                *)
(***************************************************************************)
HasColumn(f, c) == c \in Range(f.cols)

\* gdf.geometry: the values of the active geometry column
Geometry(f) == [i \in 1..Len(f.rows) |-> f.rows[i].vals[IndexOf(f.cols, f.gcol)]]

\* gdf[key]: the values of one column
Column(f, key) == [i \in 1..Len(f.rows) |-> f.rows[i].vals[IndexOf(f.cols, key)]]

\* gdf[key] = values: replaces the column named key, or adds it as the last
\* column when the frame has none of that name.  The active geometry column
\* stays the one named gcol.
SetItem(f, key, values) ==
    IF HasColumn(f, key)
    THEN [f EXCEPT !.rows = [i \in 1..Len(f.rows) |->
                       [f.rows[i] EXCEPT !.vals[IndexOf(f.cols, key)] = values[i]]]]
    ELSE [f EXCEPT !.cols = Append(f.cols, key),
                   !.rows = [i \in 1..Len(f.rows) |->
                       [f.rows[i] EXCEPT !.vals = Append(@, values[i])]]]

\* the geometry moved, the frame's tag left as it was
ToCrsFrameKeepsTag(f, crs) ==
    SetItem(f, f.gcol, [i \in 1..Len(f.rows) |-> Reproject(Geometry(f)[i], f.crs, crs)])

\* the frame gdf.to_crs(crs) holds: the same records, the active geometry moved
ToCrsFrame(f, crs) ==
    [SetItem(f, f.gcol, [i \in 1..Len(f.rows) |-> Reproject(Geometry(f)[i], f.crs, crs)])
        EXCEPT !.crs = crs]

\* a to_crs that hands back the object itself when it is in the frame already
to_crs_same_object(h, id, crs) ==
    IF h[id].crs = crs THEN [heap |-> h, id |-> id]
    ELSE [heap |-> Append(h, ToCrsFrame(h[id], crs)), id |-> Len(h) + 1]

\* gdf.to_crs(crs) returns a new object; the one it is called on is left alone
to_crs(h, id, crs) == [heap |-> Append(h, ToCrsFrame(h[id], crs)), id |-> Len(h) + 1]

\* positions of the columns of f other than its active geometry column
AttrPositions(f) == {i \in 1..Len(f.cols) : f.cols[i] # f.gcol}

\* a record keeping the right index label as its own
JoinRecordRightLabel(lrow, rrow, rpos) ==
    [idx  |-> rrow.idx,
     vals |-> lrow.vals \o <<rrow.idx>> \o Pick(rrow.vals, rpos)]

\* a record whose right columns were not filled in
JoinRecordNoRightValues(lrow, rrow, rpos) ==
    [idx  |-> lrow.idx,
     vals |-> lrow.vals \o <<rrow.idx>> \o [k \in 1..Cardinality(rpos) |-> 0]]

\* the record sjoin makes of a left and a right record: the left index label, the
\* left values, the right index label, the right values at the positions rpos
JoinRecord(lrow, rrow, rpos) ==
    [idx  |-> lrow.idx,
     vals |-> lrow.vals \o <<rrow.idx>> \o Pick(rrow.vals, rpos)]

\* gpd.sjoin(left, right, predicate=predicate), an inner join: one record per pair
\* (left record, right record) whose geometries satisfy the predicate, ordered by
\* left then right position.  A record keeps the left index label and holds the
\* left columns, index_right (the right index label) and the right columns other
\* than the right geometry.  A column name both sides carry gets the suffixes
\* _left and _right.
sjoin(left, right, predicate) ==
    LET rpos    == AttrPositions(right)
        rcols   == Pick(right.cols, rpos)
        overlap == Range(left.cols) \cap Range(rcols)
        lnames  == [i \in 1..Len(left.cols) |->
                       IF left.cols[i] \in overlap
                       THEN left.cols[i] \o "_left" ELSE left.cols[i]]
        rnames  == [i \in 1..Len(rcols) |->
                       IF rcols[i] \in overlap THEN rcols[i] \o "_right" ELSE rcols[i]]
        nr      == Len(right.rows)
        lgeom   == Geometry(left)
        rgeom   == Geometry(right)
        hits    == {(i - 1) * nr + j : <<i, j>> \in
                       {p \in (1..Len(left.rows)) \X (1..nr) :
                           Holds(predicate, lgeom[p[1]], rgeom[p[2]])}}
        order   == SortedSeq(hits)
        li(k)   == ((order[k] - 1) \div nr) + 1
        ri(k)   == ((order[k] - 1) % nr) + 1
    IN  [crs  |-> left.crs,
         gcol |-> left.gcol,
         cols |-> lnames \o <<"index_right">> \o rnames,
         rows |-> [k \in 1..Len(order) |->
                     JoinRecord(left.rows[li(k)], right.rows[ri(k)], rpos)]]

\* a drop that leaves the join's index_right column in place
drop_keeping_index_right(f, names) ==
    LET keep == {i \in 1..Len(f.cols) : f.cols[i] \notin (names \ {"index_right"})}
    IN  [f EXCEPT !.cols = Pick(f.cols, keep),
                  !.rows = [i \in 1..Len(f.rows) |->
                               [f.rows[i] EXCEPT !.vals = Pick(@, keep)]]]

\* df.drop(columns=names)
drop(f, names) ==
    LET keep == {i \in 1..Len(f.cols) : f.cols[i] \notin names}
    IN  [f EXCEPT !.cols = Pick(f.cols, keep),
                  !.rows = [i \in 1..Len(f.rows) |->
                               [f.rows[i] EXCEPT !.vals = Pick(@, keep)]]]

\* no deduplication
drop_duplicates_skipped(f) == f

\* df.drop_duplicates(): of the records equal in every column, the first stays;
\* the index label is no column and is not compared
drop_duplicates(f) ==
    LET keep == {i \in 1..Len(f.rows) :
                    \A j \in 1..(i - 1) : f.rows[j].vals # f.rows[i].vals}
    IN  [f EXCEPT !.rows = Pick(f.rows, keep)]

\* a selection that hands the whole target back when the mask has no record
SelectRunEmptyMaskShortcut(h, gdf0, mask0, add_select_attr, predicate, crs, tolerance_m) ==
    LET a        == to_crs(h, gdf0, crs)
        gdf      == a.id
        b        == to_crs(a.heap, mask0, crs)
        selector == b.id
        buffered == [i \in 1..Len(b.heap[selector].rows) |->
                        Buffer(Geometry(b.heap[selector])[i], tolerance_m)]
        h3       == [b.heap EXCEPT ![selector] = SetItem(@, "geometry", buffered)]
        joined   == sjoin(h3[gdf], h3[selector], predicate)
        columns_to_drop == {c \in Range(joined.cols) : ~HasColumn(h3[gdf], c)}
        subset   == IF ~add_select_attr THEN drop(joined, columns_to_drop) ELSE joined
    IN  IF Len(h[mask0].rows) = 0
        THEN [heap |-> h3, found |-> Len(h3[gdf].rows), result |-> drop_duplicates(h3[gdf])]
        ELSE [heap |-> h3, found |-> Len(subset.rows), result |-> drop_duplicates(subset)]

\* the frame spatial_select_geodataframe returns, the number of records found
\* before the duplicates were dropped, and the heap it leaves, for the caller's
\* objects gdf0 and mask0 on the heap h
SelectRun(h, gdf0, mask0, add_select_attr, predicate, crs, tolerance_m) ==
    LET a        == to_crs(h, gdf0, crs)
        gdf      == a.id
        b        == to_crs(a.heap, mask0, crs)
        selector == b.id
        buffered == [i \in 1..Len(b.heap[selector].rows) |->
                        Buffer(Geometry(b.heap[selector])[i], tolerance_m)]
        h3       == [b.heap EXCEPT ![selector] = SetItem(@, "geometry", buffered)]
        joined   == sjoin(h3[gdf], h3[selector], predicate)
        columns_to_drop == {c \in Range(joined.cols) : ~HasColumn(h3[gdf], c)}
        subset   == IF ~add_select_attr THEN drop(joined, columns_to_drop) ELSE joined
    IN  [heap |-> h3, found |-> Len(subset.rows), result |-> drop_duplicates(subset)]

\* logging.<level>(msg): one more record handed to logging
Logged(l, level, msg) == Append(l, [level |-> level, msg |-> msg])

\* the spatial index sjoin queries for a predicate other than "within", the one of
\* the right frame, holds a geometry: some active geometry of the selector, as
\* line 112 left it, is not empty
SelectorIndexHolds(f, tolerance_m) ==
    LET buffered == [i \in 1..Len(f.rows) |-> Buffer(Geometry(f)[i], tolerance_m)]
        selector == SetItem(f, "geometry", buffered)
    IN  \E i \in 1..Len(selector.rows) : ~Geometry(selector)[i].empty

\* the exception spatial_select_geodataframe raises, None when it returns.  The
\* function catches nothing, so what a library call raises reaches the caller:
\* to_crs raises AttributeError on a frame without geometry column and CRSError on
\* an identifier it does not know (line 109 for the target, line 110 for the
\* mask); sjoin hands the predicate to the query of the spatial index, which
\* raises ValueError for a name it does not know, and sjoin skips the query when
\* the index holds no geometry.
SelectRaises(h, gdf0, mask0, predicate, crs, tolerance_m) ==
    IF h[gdf0].gcol = None THEN "AttributeError"
    ELSE IF crs \notin Frames THEN "CRSError"
    ELSE IF h[mask0].gcol = None THEN "AttributeError"
    ELSE IF predicate \notin Predicates
            /\ SelectorIndexHolds(ToCrsFrame(h[mask0], crs), tolerance_m)
         THEN "ValueError"
    ELSE None

\* the records spatial_select_geodataframe hands to logging: none when to_crs
\* raises (lines 109, 110), the start record when sjoin raises (line 114), else
\* the start record, the number of joined records and the size of the result
SelectLog(l, exc, predicate, found, size) ==
    LET started == Logged(l, "info",
                          "Start selection of subset of geodataframe (spatial relationship: "
                              \o predicate \o ")")
    IN  IF exc \in {"AttributeError", "CRSError"} THEN l
        ELSE IF exc # None THEN started
        ELSE Logged(Logged(started, "info", "Found " \o ToString(found) \o " records."),
                    "info",
                    "Success: got subset, dropped duplicates. size = " \o ToString(size))

(***************************************************************************)
(* Tables.  A pandas DataFrame is a frame without geometry column and      *)
(* without reference frame.  A text value is the sequence of its           *)
(* characters where the code works on the characters; the WKT text of a    *)
(* geometry is a string.  A polars DataFrame is a function from column     *)
(* names to columns; it has no index.                                      *)
(***************************************************************************)
\* None in a column of geometries
NoGeometry ==
    [x1 |-> 0, y1 |-> 0, x2 |-> 0, y2 |-> 0, r |-> 0, empty |-> TRUE, missing |-> TRUE]

\* geom.wkt of a point, a line or a box as it was loaded (r = 0); the ring of a
\* box starts at its lower right corner and runs against the clock
Wkt(g) ==
    IF g.empty THEN "POLYGON EMPTY"
    ELSE IF IsPoint(g) THEN "POINT (" \o ToString(g.x1) \o " " \o ToString(g.y1) \o ")"
    ELSE IF IsLine(g)
    THEN "LINESTRING (" \o ToString(g.x1) \o " " \o ToString(g.y1) \o ", "
             \o ToString(g.x2) \o " " \o ToString(g.y2) \o ")"
    ELSE "POLYGON ((" \o ToString(g.x2) \o " " \o ToString(g.y1) \o ", "
             \o ToString(g.x2) \o " " \o ToString(g.y2) \o ", "
             \o ToString(g.x1) \o " " \o ToString(g.y2) \o ", "
             \o ToString(g.x1) \o " " \o ToString(g.y1) \o ", "
             \o ToString(g.x2) \o " " \o ToString(g.y1) \o "))"

\* the geometries a WKT text in use can stand for
KnownGeometries ==
    {Point(x, y) : x \in 0..4, y \in 0..4} \cup {Box(0, 0, 4, 4), EmptyPolygon}

\* geoUtils.safe_wkt_load(geom): None for None and for the empty text,
\* the geometry for a WKT text, None for a text that is no WKT
safe_wkt_load(geom) ==
    IF geom = None \/ geom = "" THEN NoGeometry
    ELSE IF \E g \in KnownGeometries : Wkt(g) = geom
         THEN CHOOSE g \in KnownGeometries : Wkt(g) = geom
         ELSE NoGeometry

\* the columns whose values are text
TextColumns == {"code", "clean"}

\* the columns whose values are the WKT text of a geometry; what another
\* column holds is no WKT text, and safe_wkt_load makes None of it
WktColumns == {"geom"}

\* a query of DataFrame.query: one comparison of a column with a number
Query(column, op, value) == [column |-> column, op |-> op, value |-> value]

QueryText(q) == q.column \o " " \o q.op \o " " \o ToString(q.value)

QueryHolds(q, v) == IF q.op = ">" THEN v > q.value ELSE v = q.value

\* df.query(sql_query): a new frame of the records that satisfy the query,
\* with the index labels they had
DfQuery(f, q) ==
    [f EXCEPT !.rows = Pick(f.rows, {i \in 1..Len(f.rows) :
                                        QueryHolds(q, Column(f, q.column)[i])})]

\* what a call on the objects of heap h leaves: the heap, the log, the
\* exception raised and the object returned (its place on the heap)
Left(h, l, raised, returned) ==
    [heap |-> h, log |-> l, raised |-> raised, returned |-> returned]

\* dfUtils.filter_pandas_df_with_sql(df, sql_query); a column the frame does
\* not have is an undefined variable of the query
FilterPandasDfWithSql(h, l, df, sql_query) ==
    IF ~HasColumn(h[df], sql_query.column) THEN Left(h, l, "UndefinedVariableError", None)
    ELSE Left(Append(h, DfQuery(h[df], sql_query)),
              Logged(l, "info", "Filtered dataframe with " \o QueryText(sql_query)
                                    \o ". Remaining: "
                                    \o ToString(Len(DfQuery(h[df], sql_query).rows))
                                    \o " rows."),
              None, Len(h) + 1)

\* dfUtils.filter_pandas_df_is_in(df, attribute, range): a new frame of the
\* records whose value is one of range
FilterPandasDfIsIn(h, l, df, attribute, range) ==
    IF ~HasColumn(h[df], attribute) THEN Left(h, l, "KeyError", None)
    ELSE Left(Append(h, [h[df] EXCEPT !.rows =
                            Pick(@, {i \in 1..Len(h[df].rows) :
                                        Column(h[df], attribute)[i] \in range})]),
              l, None, Len(h) + 1)

MatchesAt(text, i, pattern) ==
    /\ i + Len(pattern) - 1 <= Len(text)
    /\ SubSeq(text, i, i + Len(pattern) - 1) = pattern

RECURSIVE RemoveFrom(_, _, _)
\* re.sub of the alternation of the escaped patterns by "", from place i on:
\* the first pattern of the list that matches at a place is taken out.  An
\* empty pattern matches everywhere and takes nothing out, and after an empty
\* match re.sub looks at the same place for a match that is not empty: the
\* first pattern that is not empty and matches is taken out.  Where none does
\* the character stays.
RemoveFrom(text, i, patterns) ==
    IF i > Len(text) THEN << >>
    ELSE LET hits == {k \in 1..Len(patterns) :
                         Len(patterns[k]) > 0 /\ MatchesAt(text, i, patterns[k])}
         IN  IF hits = {}
             THEN <<text[i]>> \o RemoveFrom(text, i + 1, patterns)
             ELSE RemoveFrom(text, i + Len(patterns[SetMin(hits)]), patterns)

\* dfUtils.pandas_series_remove_string_occurrences(series, patterns)
pandas_series_remove_string_occurrences(series, patterns) ==
    [i \in 1..Len(series) |-> RemoveFrom(series[i], 1, patterns)]

IsDigit(c) == c \in {"0", "1", "2", "3", "4", "5", "6", "7", "8", "9"}

\* dfUtils.pandas_series_keep_only_numbers(series): Series.replace with a
\* regular expression works on the text values and leaves the others
pandas_series_keep_only_numbers(series, istext) ==
    [i \in 1..Len(series) |-> IF istext THEN SelectSeq(series[i], IsDigit) ELSE series[i]]

\* dfUtils.pandas_clean_dataframe_remove_substrings_from_column: the caller's
\* frame gets the column and is handed back; the .str accessor raises
\* AttributeError on a column that is not text
PandasCleanDataframeRemoveSubstringsFromColumn(h, l, df, src_column, target_column, patterns) ==
    IF ~HasColumn(h[df], src_column) THEN Left(h, l, "KeyError", None)
    ELSE IF src_column \notin TextColumns THEN Left(h, l, "AttributeError", None)
    ELSE Left([h EXCEPT ![df] =
                  SetItem(@, target_column,
                          pandas_series_remove_string_occurrences(Column(@, src_column),
                                                                  patterns))],
              l, None, df)

\* dfUtils.pandas_clean_dataframe_keep_numbers: the caller's frame gets the
\* column and is handed back
PandasCleanDataframeKeepNumbers(h, l, df, src_column, target_column) ==
    IF ~HasColumn(h[df], src_column) THEN Left(h, l, "KeyError", None)
    ELSE Left([h EXCEPT ![df] =
                  SetItem(@, target_column,
                          pandas_series_keep_only_numbers(Column(@, src_column),
                                                          src_column \in TextColumns))],
              l, None, df)

\* pl.from_pandas(df): the columns of the frame, the index left out
FromPandas(f) == [c \in Range(f.cols) |-> Column(f, c)]

\* len(polars_df): the length of its columns
Height(pld, cols) == IF cols = << >> THEN 0 ELSE Len(pld[cols[1]])

\* polars_df.to_pandas(): a table with the columns in the order given and a
\* new index 0, 1, ...
ToPandas(pld, cols) ==
    LET n == Height(pld, cols)
    IN  [crs  |-> None,
         gcol |-> None,
         cols |-> cols,
         rows |-> [i \in 1..n |-> [idx |-> i - 1,
                                   vals |-> [k \in 1..Len(cols) |-> pld[cols[k]][i]]]]]

\* ioUtils.pandas_to_polars(pandas_df), with the record of time_function
PandasToPolars(h, l, pandas_df) ==
    Left(Append(h, FromPandas(h[pandas_df])),
         Logged(Logged(l, "info", "Start converting pandas to polars. n="
                                      \o ToString(Len(h[pandas_df].rows)) \o " rows."),
                "info", "executed in"),
         None, Len(h) + 1)

\* ioUtils.polars_to_pandas(polars_df), with the record of time_function
PolarsToPandas(h, l, polars_df, cols) ==
    Left(Append(h, ToPandas(h[polars_df], cols)),
         Logged(Logged(l, "info", "Start converting polars to pandas. n="
                                      \o ToString(Height(h[polars_df], cols)) \o " rows."),
                "info", "executed in"),
         None, Len(h) + 1)

\* ioUtils.pandas_to_geopandas(df, geom_col, crs): the column of the caller's
\* frame is overwritten with what safe_wkt_load makes of its values (line 395)
\* before the GeoDataFrame is built from the frame, so a reference frame that
\* is not known raises with the caller's column already replaced; the record
\* of time_function is logged when the call returns
PandasToGeopandas(h, l, df, geom_col, crs) ==
    IF ~HasColumn(h[df], geom_col) THEN Left(h, l, "ValueError", None)
    ELSE LET loaded == [i \in 1..Len(h[df].rows) |->
                           IF geom_col \in WktColumns
                           THEN safe_wkt_load(Column(h[df], geom_col)[i])
                           ELSE NoGeometry]
             h1     == [h EXCEPT ![df] = SetItem(@, geom_col, loaded)]
         IN  IF crs \notin Frames THEN Left(h1, l, "CRSError", None)
             ELSE Left(Append(h1, [h1[df] EXCEPT !.gcol = geom_col, !.crs = crs]),
                       Logged(l, "info", "executed in"), None, Len(h) + 1)

\* ioUtils.geopandas_to_polars(geopandas_gdf, geom_col): the column of the
\* caller's frame is overwritten with the WKT text of its geometries (line
\* 412), then the frame goes through pandas_to_polars.  A column that is not
\* there raises KeyError, a value that is neither a geometry nor None
\* AttributeError (.wkt); None stays None
GeopandasToPolars(h, l, geopandas_gdf, geom_col) ==
    IF ~HasColumn(h[geopandas_gdf], geom_col) THEN Left(h, l, "KeyError", None)
    ELSE IF geom_col # h[geopandas_gdf].gcol /\ h[geopandas_gdf].rows # << >>
         THEN Left(h, l, "AttributeError", None)
    ELSE LET texts == [i \in 1..Len(h[geopandas_gdf].rows) |->
                          IF Column(h[geopandas_gdf], geom_col)[i] = NoGeometry THEN None
                          ELSE Wkt(Column(h[geopandas_gdf], geom_col)[i])]
             h1    == [h EXCEPT ![geopandas_gdf] = SetItem(@, geom_col, texts)]
         IN  PandasToPolars(h1, l, geopandas_gdf)

(***************************************************************************)
(* The inputs.  Features are given by their position in EPSG:31370 and     *)
(* stored in the frame of their collection.                                *)
(***************************************************************************)
\* the features of a target: points, a polygon, a line along a side of the
\* polygon and a line across it
TargetFeatures ==
    { [name |-> 1, geom |-> Point(3, 3)],
      [name |-> 1, geom |-> Point(0, 0)],
      [name |-> 2, geom |-> Box(0, 0, 4, 4)],
      [name |-> 3, geom |-> Line(0, 0, 4, 0)],
      [name |-> 3, geom |-> Line(2, 0, 2, 4)] }

MaskFeatures ==
    { [attr |-> 1, geom |-> Box(0, 0, 4, 4)],
      [attr |-> 2, geom |-> Point(3, 3)] }

\* the frames the target and the mask come in: the same or different ones
SourceFrames ==
    { <<"EPSG:31370", "EPSG:31370">>, <<"EPSG:31370", "EPSG:3812">> }

\* how the two collections were loaded: the name of their geometry column
\* ("geometry" from a file, "geom" from pandas_to_geopandas) and the name of the
\* mask's attribute ("name" is an attribute of the target too)
Layouts ==
    { [gcol |-> "geometry", attr |-> "zone"],
      [gcol |-> "geometry", attr |-> "name"],
      [gcol |-> "geom", attr |-> "zone"] }

TargetFrame(feats, crs, gcol) ==
    [crs  |-> crs,
     gcol |-> gcol,
     cols |-> <<"name", gcol>>,
     rows |-> [i \in 1..Len(feats) |->
                 [idx  |-> i - 1,
                  vals |-> <<feats[i].name, Reproject(feats[i].geom, "EPSG:31370", crs)>>]]]

MaskFrame(feats, crs, gcol, attr) ==
    [crs  |-> crs,
     gcol |-> gcol,
     cols |-> <<attr, gcol>>,
     rows |-> [i \in 1..Len(feats) |->
                 [idx  |-> i - 1,
                  vals |-> <<feats[i].attr, Reproject(feats[i].geom, "EPSG:31370", crs)>>]]]

\* the scenario of the specification: three points, one polygon around two of them
ScenarioTarget ==
    << [name |-> 1, geom |-> Point(0, 0)],
       [name |-> 2, geom |-> Point(10, 10)],
       [name |-> 3, geom |-> Point(100, 100)] >>

ScenarioMask == << [attr |-> 1, geom |-> Box(0 - 5, 0 - 5, 15, 15)] >>

\* some feature of the sequence is a line
HoldsLine(feats) == \E i \in 1..Len(feats) : IsLine(feats[i].geom)

\* the polygon alone, the mask a target with a line is selected with
PolygonMask == << [attr |-> 1, geom |-> Box(0, 0, 4, 4)] >>

InitGeneral ==
    \E tf \in SeqsUpTo(TargetFeatures, MaxTargetRows),
       mf \in SeqsUpTo(MaskFeatures, MaxMaskRows),
       src \in SourceFrames, crs \in Frames,
       lay \in Layouts,
       add \in BOOLEAN, predicate \in Predicates, tol \in {0, MaxTol} :
        /\ HoldsLine(tf) => mf = PolygonMask
        /\ heap = << TargetFrame(tf, src[1], lay.gcol),
                     MaskFrame(mf, src[2], lay.gcol, lay.attr) >>
        /\ params = [add_select_attr |-> add, predicate |-> predicate,
                     crs |-> crs, tolerance_m |-> tol]

InitScenario ==
    \E add \in BOOLEAN :
        /\ heap = << TargetFrame(ScenarioTarget, "EPSG:31370", "geometry"),
                     MaskFrame(ScenarioMask, "EPSG:31370", "geometry", "zone") >>
        /\ params = [add_select_attr |-> add, predicate |-> "within",
                     crs |-> "EPSG:31370", tolerance_m |-> 0]

\* nothing outside the process takes part in a selection
NoWorld ==
    /\ fs = {}
    /\ db = None
    /\ procs = << >>
    /\ log = << >>

MaxTableRows == 2

\* the records of a table: a number, a text, the WKT text of a geometry
TableValues ==
    { <<1, <<"a", "1", "b">>, "POINT (3 3)">>,
      <<2, <<"2", "a", "b", "a">>, "POLYGON ((4 0, 4 4, 0 4, 0 0, 4 0))">>,
      <<3, << >>, "">>,
      <<0, <<"b", "7">>, "not wkt">> }

TableColumns == <<"name", "code", "geom">>

Table(values) ==
    [crs  |-> None,
     gcol |-> None,
     cols |-> TableColumns,
     rows |-> [i \in 1..Len(values) |-> [idx |-> i - 1, vals |-> values[i]]]]

\* the same records as a GeoDataFrame
GeoTable(values) ==
    [crs  |-> "EPSG:31370",
     gcol |-> "geom",
     cols |-> TableColumns,
     rows |-> [i \in 1..Len(values) |->
                 [idx  |-> i - 1,
                  vals |-> <<values[i][1], values[i][2], safe_wkt_load(values[i][3])>>]]]

\* the caller holds a table as a pandas DataFrame, as a GeoDataFrame and as
\* a polars DataFrame, and is about to hand one of them to a function
InitTables ==
    /\ \E values \in SeqsUpTo(TableValues, MaxTableRows) :
           heap = << Table(values), GeoTable(values), FromPandas(Table(values)) >>
    /\ params = [add_select_attr |-> FALSE, predicate |-> "intersects",
                 crs |-> "EPSG:31370", tolerance_m |-> 0]
    /\ pc = "tables"

Init ==
    /\ \/ (InitGeneral \/ InitScenario) /\ pc = "start"
       \/ InitTables
    /\ target = 1
    /\ mask = 2
    /\ pre = heap
    /\ out = << >>
    /\ call = NoCall
    /\ NoWorld

(***************************************************************************)
(* The operations.                                                         *)
(***************************************************************************)
\* a call subset = spatial_select_geodataframe(target, mask, ...) by the caller;
\* the callee's temporaries are dropped when it returns, the result is a new object
\* a call that raises returns nothing and leaves no object behind
spatial_select_geodataframe ==
    /\ pc \in {"start", "reprojected"}
    /\ LET exc == SelectRaises(heap, target, mask, params.predicate, params.crs,
                               params.tolerance_m)
           run == SelectRun(heap, target, mask, params.add_select_attr,
                            params.predicate, params.crs, params.tolerance_m)
       IN  /\ call' = [fn |-> "spatial_select_geodataframe", raised |-> exc]
           /\ IF exc # None
              THEN /\ pc' = "raised"
                   /\ UNCHANGED <<heap, out>>
              ELSE /\ heap' = Append(SubSeq(run.heap, 1, Len(heap)), run.result)
                   /\ out' = Append(out, [id |-> Len(heap) + 1, target |-> target,
                                          mask |-> mask])
                   /\ pc' = IF pc = "start" THEN "selected" ELSE "reselected"
           /\ log' = IF exc # None THEN SelectLog(log, exc, params.predicate, 0, 0)
                     ELSE SelectLog(log, exc, params.predicate, run.found,
                                    Len(run.result.rows))
    /\ pre' = heap
    /\ UNCHANGED <<target, mask, params>>
    /\ UNCHANGED <<fs, db, procs>>

\* the caller reprojects its collections itself, before a second call:
\* target = target.to_crs(crs); mask = mask.to_crs(crs)
ReprojectInputs ==
    /\ pc = "selected"
    /\ LET a == to_crs(heap, target, params.crs)
           b == to_crs(a.heap, mask, params.crs)
       IN  /\ heap' = b.heap
           /\ target' = a.id
           /\ mask' = b.id
    /\ pc' = "reprojected"
    /\ UNCHANGED <<params, pre, out, call>>
    /\ UNCHANGED world

\* the caller calls fn(args) on its tables and is left with what the call leaves
CalledOnTables(fn, args, o) ==
    /\ pc = "tables"
    /\ pc' = "converted"
    /\ call' = [fn |-> fn, args |-> args, raised |-> o.raised, returned |-> o.returned]
    /\ heap' = o.heap
    /\ log' = o.log
    /\ pre' = heap
    /\ UNCHANGED <<target, mask, params, out>>

filter_pandas_df_with_sql ==
    \E column \in {"name", "zone"}, op \in {">", "=="}, value \in {1, 2} :
        /\ CalledOnTables("filter_pandas_df_with_sql",
                          [df |-> 1, sql_query |-> QueryText(Query(column, op, value))],
                          FilterPandasDfWithSql(heap, log, 1, Query(column, op, value)))
        /\ UNCHANGED <<fs, db, procs>>

filter_pandas_df_is_in ==
    \E attribute \in {"name", "zone"}, range \in {{1}, {0, 2}} :
        /\ CalledOnTables("filter_pandas_df_is_in",
                          [df |-> 1, attribute |-> attribute, range |-> range],
                          FilterPandasDfIsIn(heap, log, 1, attribute, range))
        /\ UNCHANGED <<fs, db, procs>>

\* lists of patterns to take out of a text
PatternLists ==
    { << >>, << <<"a">> >>, << <<"a">>, <<"a", "b">> >>, << <<"a", "b">>, <<"a">> >>,
      << << >>, <<"a">> >> }

pandas_clean_dataframe_remove_substrings_from_column ==
    \E src_column \in {"code", "name", "zone"}, target_column \in {"code", "clean"},
       patterns_to_remove \in PatternLists :
        /\ CalledOnTables("pandas_clean_dataframe_remove_substrings_from_column",
                          [df |-> 1, src_column |-> src_column,
                           target_column |-> target_column,
                           patterns_to_remove |-> patterns_to_remove],
                          PandasCleanDataframeRemoveSubstringsFromColumn(
                              heap, log, 1, src_column, target_column, patterns_to_remove))
        /\ UNCHANGED <<fs, db, procs>>

pandas_clean_dataframe_keep_numbers ==
    \E src_column \in {"code", "name", "zone"}, target_column \in {"code", "clean"} :
        /\ CalledOnTables("pandas_clean_dataframe_keep_numbers",
                          [df |-> 1, src_column |-> src_column,
                           target_column |-> target_column],
                          PandasCleanDataframeKeepNumbers(heap, log, 1, src_column,
                                                          target_column))
        /\ UNCHANGED <<fs, db, procs>>

pandas_to_polars ==
    /\ CalledOnTables("pandas_to_polars", [pandas_df |-> 1], PandasToPolars(heap, log, 1))
    /\ UNCHANGED <<fs, db, procs>>

polars_to_pandas ==
    /\ CalledOnTables("polars_to_pandas", [polars_df |-> 3],
                      PolarsToPandas(heap, log, 3, TableColumns))
    /\ UNCHANGED <<fs, db, procs>>

pandas_to_geopandas ==
    \E geom_col \in {"geom", "name", "zone"}, crs \in Frames \cup {"EPSG:0"} :
        /\ CalledOnTables("pandas_to_geopandas", [df |-> 1, geom_col |-> geom_col, crs |-> crs],
                          PandasToGeopandas(heap, log, 1, geom_col, crs))
        /\ UNCHANGED <<fs, db, procs>>

geopandas_to_polars ==
    \E geom_col \in {"geom", "geometry", "name"} :
        /\ CalledOnTables("geopandas_to_polars", [geopandas_gdf |-> 2, geom_col |-> geom_col],
                          GeopandasToPolars(heap, log, 2, geom_col))
        /\ UNCHANGED <<fs, db, procs>>

Next ==
    \/ spatial_select_geodataframe
    \/ ReprojectInputs
    \/ filter_pandas_df_with_sql
    \/ filter_pandas_df_is_in
    \/ pandas_clean_dataframe_remove_substrings_from_column
    \/ pandas_clean_dataframe_keep_numbers
    \/ pandas_to_polars
    \/ polars_to_pandas
    \/ pandas_to_geopandas
    \/ geopandas_to_polars

Spec == Init /\ [][Next]_vars

(***************************************************************************)
(* Vocabulary of the properties.  Call k took the frames T(k) and M(k)     *)
(* and returned R(k).                                                      *)
(***************************************************************************)
\* the call that has just returned, if one has
Calls == IF pc \in {"selected", "reselected"} THEN {Len(out)} ELSE {}

T(k) == heap[out[k].target]

M(k) == heap[out[k].mask]

R(k) == heap[out[k].id]

\* the geometry of target record i in the requested frame
TargetGeom(k, i) == Reproject(Geometry(T(k))[i], T(k).crs, params.crs)

\* the geometry of mask record j in the requested frame, buffered by the tolerance
BufferedMaskGeom(k, j) ==
    Buffer(Reproject(Geometry(M(k))[j], M(k).crs, params.crs), params.tolerance_m)

\* the mask records whose buffered geometry satisfies the predicate with target record i
Matching(k, i) ==
    {j \in 1..Len(M(k).rows) : Holds(params.predicate, TargetGeom(k, i), BufferedMaskGeom(k, j))}

\* the geometries of the mask records that the join of call k compared
JoinMaskGeoms(k) ==
    LET sel == ToCrsFrame(M(k), params.crs)
    IN  Geometry(SetItem(sel, "geometry",
            [n \in 1..Len(sel.rows) |-> Buffer(Geometry(sel)[n], params.tolerance_m)]))

\* the mask records the join of call k matched with target record i
Joined(k, i) ==
    LET g == JoinMaskGeoms(k)
        t == TargetGeom(k, i)
    IN  {j \in 1..Len(M(k).rows) : Holds(params.predicate, t, g[j])}

\* the positions of the target columns that column p of the result comes from
FromTarget(k, p) ==
    {q \in 1..Len(T(k).cols) :
        \/ R(k).cols[p] = T(k).cols[q]
        \/ R(k).cols[p] = T(k).cols[q] \o "_left"}

\* the value of target record i in column q, its geometry in the requested frame
TargetValue(k, i, q) ==
    IF T(k).cols[q] = T(k).gcol THEN TargetGeom(k, i) ELSE T(k).rows[i].vals[q]

\* record r of the result is target record i: it agrees with it on every column
\* the result took from the target
IsRecordOf(k, r, i) ==
    \A p \in 1..Len(R(k).cols) : \A q \in FromTarget(k, p) :
        R(k).rows[r].vals[p] = TargetValue(k, i, q)

\* the records of the result that are target record i
Appearances(k, i) == {r \in 1..Len(R(k).rows) : IsRecordOf(k, r, i)}

TargetRows(k) == 1..Len(T(k).rows)

\* the attributes of a frame: its columns other than the geometry
Attributes(f) == {f.cols[i] : i \in AttrPositions(f)}

(***************************************************************************)
(* C1.  The collection spatial_select_geodataframe returns holds no two    *)
(* identical records, whatever the target, the mask and add_select_attr.   *)
(***************************************************************************)
C1_NoDuplicateRecords ==
    \A k \in Calls : \A i, j \in 1..Len(R(k).rows) :
        i # j => R(k).rows[i].vals # R(k).rows[j].vals

\* a call whose join made two equal records of one target record (two mask
\* records matched, the mask columns dropped) and returned one
C1_Witness ==
    \E k \in Calls :
        /\ ~params.add_select_attr
        /\ Len(T(k).rows) = 1
        /\ Cardinality(Joined(k, 1)) = 2
        /\ Len(R(k).rows) = 1

(***************************************************************************)
(* C2.  As claimed: a target record that satisfies the predicate with      *)
(* k >= 1 mask records is in the result exactly once, for either setting   *)
(* of add_select_attr.                                                     *)
(***************************************************************************)
C2_OnceForEitherSetting ==
    \A k \in Calls : \A i \in TargetRows(k) :
        Joined(k, i) # {} => Cardinality(Appearances(k, i)) = 1

\* C2 as amended: a target record that the join matched with k >= 1 mask records
\* is in the result exactly once when add_select_attr is false, and k times, once
\* for each matched mask record, when add_select_attr is true.
C2_OncePerMatchWhenMaskAttrsKept ==
    \A k \in Calls : \A i \in TargetRows(k) :
        Joined(k, i) # {} =>
            Cardinality(Appearances(k, i)) =
                IF params.add_select_attr THEN Cardinality(Joined(k, i)) ELSE 1

\* a target record matched by two mask records, once with the mask attributes
\* dropped (one record) and once with them kept (two records)
C2_Witness ==
    \E k \in Calls : \E i \in TargetRows(k) :
        /\ Cardinality(Joined(k, i)) = 2
        /\ \/ ~params.add_select_attr /\ Cardinality(Appearances(k, i)) = 1
           \/ params.add_select_attr /\ Cardinality(Appearances(k, i)) = 2

(***************************************************************************)
(* C3.  A target record is retained if and only if at least one mask       *)
(* record, buffered by the tolerance, satisfies the predicate with it.     *)
(***************************************************************************)
C3_RetainedIffMatchesBufferedMask ==
    \A k \in Calls : \A i \in TargetRows(k) :
        (Appearances(k, i) # {}) <=> (Matching(k, i) # {})

\* the same, for collections whose geometry column is named "geometry"
C3_RetainedIffMatchesWhereColumnIsGeometry ==
    \A k \in Calls : \A i \in TargetRows(k) :
        M(k).gcol = "geometry" =>
            ((Appearances(k, i) # {}) <=> (Matching(k, i) # {}))

\* the scenario of the specification: the result is the first two points
C3_Scenario ==
    \A k \in Calls :
        ( /\ T(k) = TargetFrame(ScenarioTarget, "EPSG:31370", "geometry")
          /\ M(k) = MaskFrame(ScenarioMask, "EPSG:31370", "geometry", "zone")
          /\ params.predicate = "within" /\ params.tolerance_m = 0
          /\ ~params.add_select_attr ) =>
            /\ R(k).cols = <<"name", "geometry">>
            /\ R(k).rows = << T(k).rows[1], T(k).rows[2] >>

\* the witness of the divergence of C3: a target record on which the join and the
\* buffered mask disagree
C3_Divergence ==
    \E k \in Calls : \E i \in TargetRows(k) :
        Joined(k, i) # Matching(k, i)

(***************************************************************************)
(* C4.  Every attribute of a returned record that the target has too       *)
(* carries the value of the target record it was selected from, the one    *)
(* with the record's index label.                                          *)
(***************************************************************************)
C4_TargetValuesKept ==
    \A k \in Calls : \A r \in 1..Len(R(k).rows) : \A p \in 1..Len(R(k).cols) :
        R(k).cols[p] \in Attributes(T(k)) =>
            \E i \in TargetRows(k) :
                /\ T(k).rows[i].idx = R(k).rows[r].idx
                /\ R(k).rows[r].vals[p] = T(k).rows[i].vals[IndexOf(T(k).cols, R(k).cols[p])]

\* two records returned that carry different values of the target's attribute
C4_Witness ==
    \E k \in Calls :
        /\ HasColumn(R(k), "name")
        /\ Len(R(k).rows) = 2
        /\ Column(R(k), "name")[1] # Column(R(k), "name")[2]

(***************************************************************************)
(* C5.  With add_select_attr false the columns of the result are exactly   *)
(* the columns of the target, also when mask and target share a name.      *)
(***************************************************************************)
C5_TargetSchemaKept ==
    \A k \in Calls : ~params.add_select_attr => R(k).cols = T(k).cols

\* the same, for a mask that shares no attribute name with the target
C5_TargetSchemaKeptWithoutSharedName ==
    \A k \in Calls :
        (~params.add_select_attr /\ Attributes(M(k)) \cap Attributes(T(k)) = {})
            => R(k).cols = T(k).cols

(***************************************************************************)
(* C6.  With add_select_attr true every attribute of the mask that the     *)
(* target lacks is a column of the result, and each record carries in it   *)
(* the value of the mask record it was matched with (the one index_right   *)
(* names).                                                                 *)
(***************************************************************************)
C6_MaskAttributesKept ==
    \A k \in Calls : params.add_select_attr =>
        \A c \in Attributes(M(k)) \ Range(T(k).cols) :
            /\ HasColumn(R(k), c)
            /\ \A r \in 1..Len(R(k).rows) :
                 \E i \in TargetRows(k) : \E j \in Joined(k, i) :
                    /\ T(k).rows[i].idx = R(k).rows[r].idx
                    /\ M(k).rows[j].idx = Column(R(k), "index_right")[r]
                    /\ Column(R(k), c)[r] = Column(M(k), c)[j]

\* records matched with two mask records of different attribute values
C6_Witness ==
    \E k \in Calls :
        /\ params.add_select_attr
        /\ HasColumn(R(k), "zone")
        /\ Len(R(k).rows) = 2
        /\ Column(R(k), "zone")[1] # Column(R(k), "zone")[2]

(***************************************************************************)
(* C7.  A call leaves every object the caller holds as it was: records,    *)
(* attributes, geometries and reference frame of target and mask.          *)
(***************************************************************************)
C7_InputsNotMutated ==
    pc \in {"selected", "reselected"} =>
        \A i \in 1..Len(pre) : heap[i] = pre[i]

\* a call on a mask that is in the requested frame already and whose geometries
\* the call buffered by a positive tolerance
C7_Witness ==
    /\ pc \in {"selected", "reselected"}
    /\ \E k \in Calls :
        /\ out[k].id = Len(heap)
        /\ M(k).crs = params.crs
        /\ T(k).crs = params.crs
        /\ M(k).gcol = "geometry"
        /\ params.tolerance_m > 0
        /\ Len(M(k).rows) > 0
        /\ Len(R(k).rows) > 0
        /\ \A j \in 1..Len(M(k).rows) : Geometry(M(k))[j].r = 0

(***************************************************************************)
(* C8.  An empty mask gives an empty result, for "within" and for          *)
(* "intersects", whatever the target and the tolerance.                    *)
(***************************************************************************)
C8_EmptyMaskEmptyResult ==
    \A k \in Calls : Len(M(k).rows) = 0 => Len(R(k).rows) = 0

C8_Witness ==
    \E k \in Calls :
        /\ Len(M(k).rows) = 0
        /\ Len(T(k).rows) = MaxTargetRows
        /\ params.predicate = "intersects"
        /\ Len(R(k).rows) = 0

(***************************************************************************)
(* C9.  Tolerance 0, predicate "within", a mask that exactly covers the    *)
(* extent of the target.                                                   *)
(***************************************************************************)
\* the bounding box of the target's geometries, in the requested frame
Extent(k) ==
    Box(SetMin({TargetGeom(k, i).x1 : i \in TargetRows(k)}),
        SetMin({TargetGeom(k, i).y1 : i \in TargetRows(k)}),
        SetMax({TargetGeom(k, i).x2 : i \in TargetRows(k)}),
        SetMax({TargetGeom(k, i).y2 : i \in TargetRows(k)}))

\* the mask is one polygon, the bounding box of the target
MaskCoversExtent(k) ==
    /\ params.tolerance_m = 0
    /\ params.predicate = "within"
    /\ Len(T(k).rows) > 0
    /\ Len(M(k).rows) = 1
    /\ Extent(k).x1 < Extent(k).x2
    /\ Extent(k).y1 < Extent(k).y2
    /\ Reproject(Geometry(M(k))[1], M(k).crs, params.crs) = Extent(k)

\* a, a feature of the target whose extent is the box b, lies on the boundary
\* of b with all it has: a point on a side of b, a line along a side of b
OnBoundary(a, b) ==
    \/ a.x1 = a.x2 /\ a.x1 \in {b.x1, b.x2}
    \/ a.y1 = a.y2 /\ a.y1 \in {b.y1, b.y2}

\* C9 as claimed: every target record is returned, those on the boundary of the
\* mask included
C9_AllReturnedBoundaryIncluded ==
    \A k \in Calls : MaskCoversExtent(k) =>
        \A i \in TargetRows(k) : Appearances(k, i) # {}

\* C9 as amended: every target record is returned except those that lie on the
\* boundary of the mask with all they have (a point on the boundary, a line
\* along it), which are not returned
C9_AllReturnedButFeaturesOnBoundary ==
    \A k \in Calls : MaskCoversExtent(k) =>
        \A i \in TargetRows(k) :
            (Appearances(k, i) # {}) <=> ~OnBoundary(TargetGeom(k, i), Extent(k))

\* a target of a line along a side of the mask and a line across the mask, from
\* side to side: the line across is returned, the line along the side is not
C9_Witness ==
    \E k \in Calls :
        /\ MaskCoversExtent(k)
        /\ \E i \in TargetRows(k) :
              /\ IsLine(TargetGeom(k, i))
              /\ OnBoundary(TargetGeom(k, i), Extent(k))
              /\ Appearances(k, i) = {}
        /\ \E i \in TargetRows(k) :
              /\ IsLine(TargetGeom(k, i))
              /\ ~OnBoundary(TargetGeom(k, i), Extent(k))
              /\ Appearances(k, i) # {}

\* a target of a polygon and a point on the corner of the mask: the polygon is
\* returned, the point is not
C9_PointOnBoundary ==
    \E k \in Calls :
        /\ MaskCoversExtent(k)
        /\ \E i \in TargetRows(k) :
              /\ IsPoint(TargetGeom(k, i))
              /\ OnBoundary(TargetGeom(k, i), Extent(k))
              /\ Appearances(k, i) = {}
        /\ \E i \in TargetRows(k) :
              ~OnBoundary(TargetGeom(k, i), Extent(k)) /\ Appearances(k, i) # {}

(***************************************************************************)
(* C10.  Selecting from the collections the caller reprojected itself      *)
(* gives the result of selecting from the original collections, and both   *)
(* results are tagged with the requested frame.                            *)
(***************************************************************************)
C10_ReprojectThenSelectSame ==
    pc = "reselected" =>
        /\ R(2) = R(1)
        /\ R(1).crs = params.crs
        /\ R(2).crs = params.crs

\* both collections came in another frame than the requested one, and records
\* were selected
C10_Witness ==
    /\ pc = "reselected"
    /\ T(1).crs # params.crs
    /\ M(1).crs # params.crs
    /\ T(2).crs = params.crs
    /\ Geometry(T(2)) # Geometry(T(1))
    /\ Len(R(2).rows) > 0

(***************************************************************************)
(* Selections from inputs that need not be valid: a table without geometry *)
(* column, a frame identifier pyproj does not know, a predicate name the   *)
(* spatial index does not know.                                            *)
(***************************************************************************)
MaxErrRows == 1

\* a table that has no geometry column
PlainFrame(attr) ==
    [crs  |-> None,
     gcol |-> None,
     cols |-> <<attr>>,
     rows |-> << [idx |-> 0, vals |-> <<1>>] >>]

GivenFrames == Frames \cup {"EPSG:0"}

GivenPredicates == Predicates \cup {"near"}

InitInputErrors ==
    /\ \E gcol \in {"geometry", "geom"}, crs \in GivenFrames,
          predicate \in GivenPredicates, tol \in {0, MaxTol}, add \in BOOLEAN :
        /\ \E t \in {PlainFrame("name")} \cup
                     {TargetFrame(tf, "EPSG:31370", gcol) :
                         tf \in SeqsUpTo(TargetFeatures, MaxErrRows)},
              m \in {PlainFrame("zone")} \cup
                     {MaskFrame(mf, "EPSG:31370", gcol, "zone") :
                         mf \in SeqsUpTo(MaskFeatures, MaxErrRows)} :
               heap = <<t, m>>
        /\ params = [add_select_attr |-> add, predicate |-> predicate,
                     crs |-> crs, tolerance_m |-> tol]
    /\ target = 1
    /\ mask = 2
    /\ pre = heap
    /\ out = << >>
    /\ pc = "start"
    /\ call = NoCall
    /\ NoWorld

\* the calls that fail on their inputs, for a selection and for a table
InitAllInputErrors ==
    \/ InitInputErrors
    \/ /\ InitTables
       /\ target = 1
       /\ mask = 2
       /\ pre = heap
       /\ out = << >>
       /\ call = NoCall
       /\ NoWorld

SpecInputErrors == InitAllInputErrors /\ [][Next]_vars

\* the first call has been made and is over
FirstCallOver == pc \in {"selected", "raised"}

LacksGeometry(id) == heap[id].gcol = None

UnknownFrame == params.crs \notin Frames

UnsupportedPredicate == params.predicate \notin Predicates

\* the call raised: the caller has the exception, no result and no new object
RaisedToCaller ==
    /\ pc = "raised"
    /\ call.raised # None
    /\ out = << >>
    /\ heap = pre

\* the spatial index the join would query holds no geometry: the active
\* geometry column of the selector, as line 112 left it, has no record or empty
\* geometries only.  These are the buffered geometries when the column is named
\* "geometry" and the geometries as they came when it has another name.
NothingToJoin ==
    ~SelectorIndexHolds(ToCrsFrame(heap[mask], params.crs), params.tolerance_m)

(***************************************************************************)
(* C11.  As claimed: a call with an input that lacks geometry, with a      *)
(* frame identifier that is not known or with a predicate name that is not *)
(* supported raises to the caller and returns no result.                   *)
(***************************************************************************)
C11_InvalidInputRaises ==
    FirstCallOver /\ (LacksGeometry(target) \/ LacksGeometry(mask) \/ UnknownFrame
                        \/ UnsupportedPredicate)
        => RaisedToCaller

\* what the code keeps of C11: the call raises to the caller and returns no result
\* when an input lacks geometry and when the frame identifier is not known; with
\* a predicate name that is not supported it raises ValueError when the spatial
\* index the join queries holds a geometry, and returns an empty collection and
\* raises nothing when that index holds none.
C11_InvalidInputRaisesUnlessNothingToJoin ==
    FirstCallOver =>
        /\ LacksGeometry(target) \/ LacksGeometry(mask) \/ UnknownFrame
               => RaisedToCaller
        /\ ~LacksGeometry(target) /\ ~LacksGeometry(mask) /\ ~UnknownFrame
             /\ UnsupportedPredicate
               => IF NothingToJoin
                  THEN pc = "selected" /\ call.raised = None
                       /\ Len(heap[out[1].id].rows) = 0
                  ELSE RaisedToCaller /\ call.raised = "ValueError"

\* a call with an unsupported predicate and a mask that holds a polygon raised
C11_Raised ==
    /\ pc = "raised"
    /\ call.raised = "ValueError"
    /\ UnsupportedPredicate
    /\ Len(heap[mask].rows) > 0

\* a call with an unsupported predicate and an empty mask returned
C11_Divergence ==
    /\ pc = "selected"
    /\ UnsupportedPredicate
    /\ Len(heap[mask].rows) = 0
    /\ Len(heap[target].rows) > 0

(***************************************************************************)
(* The world outside the process.                                          *)
(*                                                                         *)
(* A path is a sequence of components, a component a record [stem, suffix] *)
(* (roads.gpkg is "roads", "gpkg"; a name holds one dot at most); the      *)
(* empty path is the working directory.  The file system fs is a set of    *)
(* nodes [path, kind, layers, content]: kind is "file" or "dir", layers    *)
(* the feature tables of a GeoPackage file, content the text of a file.    *)
(* procs is the sequence of the calls of subprocess.run: the command, if   *)
(* the program was found and started, and its exit status.                 *)
(* log is the sequence of the records handed to logging.                   *)
(* db is the database behind the engine: reachable or not, the statements  *)
(* committed, and wire, everything connections asked of it, in order.      *)
(***************************************************************************)
Name(stem, suffix) == [stem |-> stem, suffix |-> suffix]

NameStr(c) == IF c.suffix = "" THEN c.stem ELSE c.stem \o "." \o c.suffix

RECURSIVE PathStr(_)
\* the path as the string the code holds, components joined by "/"
PathStr(p) ==
    IF Len(p) = 0 THEN ""
    ELSE IF Len(p) = 1 THEN NameStr(p[1])
    ELSE PathStr(SubSeq(p, 1, Len(p) - 1)) \o "/" \o NameStr(p[Len(p)])

\* a file with its text; layers are the feature layers of a geopackage
FileWith(p, content) == [path |-> p, kind |-> "file", layers |-> {}, content |-> content]

FileNode(p) == FileWith(p, "")

DirNode(p) == [path |-> p, kind |-> "dir", layers |-> {}, content |-> ""]

\* what a SQLite database file starts with
SqliteMagic == "SQLite format 3"

\* a GeoPackage is a SQLite database; layers are the feature tables its table
\* gpkg_contents lists
GeoPackageNode(p, layers) ==
    [path |-> p, kind |-> "file", layers |-> layers, content |-> SqliteMagic]

\* os.path.exists, os.path.isfile, os.path.isdir
Exists(f, p) == p = << >> \/ \E n \in f : n.path = p

IsFile(f, p) == \E n \in f : n.path = p /\ n.kind = "file"

IsDir(f, p) == p = << >> \/ \E n \in f : n.path = p /\ n.kind = "dir"

\* the text of file p, "" when it is not there
ContentOf(f, p) == IF IsFile(f, p) THEN (CHOOSE n \in f : n.path = p).content ELSE ""

\* the paths above p, the working directory left out
Ancestors(p) == {SubSeq(p, 1, k) : k \in 1..(Len(p) - 1)}

\* open(p, "w"): the exception it raises, None when it opens.  The first
\* component above p that is no folder decides: a file there gives
\* NotADirectoryError, nothing there FileNotFoundError; p being a folder gives
\* IsADirectoryError
OpenForWriteRaises(f, p) ==
    LET bad == {k \in 1..(Len(p) - 1) : ~IsDir(f, SubSeq(p, 1, k))}
    IN  IF bad # {}
        THEN (IF IsFile(f, SubSeq(p, 1, SetMin(bad))) THEN "NotADirectoryError"
              ELSE "FileNotFoundError")
        ELSE IF IsDir(f, p) THEN "IsADirectoryError"
        ELSE None

\* the file system after p was opened for writing and content written to it
Written(f, p, content) == {n \in f : n.path # p} \cup {FileWith(p, content)}

\* os.path.basename and os.path.splitext
Basename(p) == p[Len(p)]

SplitExt(p) ==
    <<Basename(p).stem, IF Basename(p).suffix = "" THEN "" ELSE "." \o Basename(p).suffix>>

\* str.lower() on the extensions in use
Lower(ext) ==
    IF ext = ".7Z" THEN ".7z"
    ELSE IF ext = ".ZIP" THEN ".zip"
    ELSE IF ext = ".GPKG" THEN ".gpkg"
    ELSE ext

\* the state of the world with the outcome of a call
Outcome(f, d, ps, l, raised, returned) ==
    [fs |-> f, db |-> d, procs |-> ps, log |-> l, raised |-> raised,
     returned |-> returned]

\* a value of a Python dictionary: an int, or an object json cannot
\* serialize (a set)
PyInt(n) == [kind |-> "int", int |-> n]

PySet == [kind |-> "set", int |-> 0]

\* a dictionary with string keys, as the sequence of its items
Entry(key, value) == [key |-> key, value |-> value]

RECURSIVE DumpItems(_, _, _)
\* the text json.dump writes for the items from place i on, and the
\* exception that stops it
DumpItems(dictionary, i, text) ==
    IF i > Len(dictionary) THEN [text |-> text \o "}", raised |-> None]
    ELSE LET item  == dictionary[i]
             keyed == text \o (IF i = 1 THEN "" ELSE ", ") \o "\"" \o item.key \o "\": "
         IN  IF item.value.kind = "int"
             THEN DumpItems(dictionary, i + 1, keyed \o ToString(item.value.int))
             ELSE [text |-> keyed, raised |-> "TypeError"]

\* json.dump(dictionary, outfile): the text that reached the file, and
\* TypeError when a value cannot be serialized (what was written before it
\* stays in the file)
JsonDump(dictionary) ==
    IF dictionary = << >> THEN [text |-> "{}", raised |-> None]
    ELSE DumpItems(dictionary, 1, "{")

\* winUtils.write_dict_to_json(file_path, dictionary): open the file for
\* writing, dump the dictionary; any exception is logged at level info and
\* not raised
WriteDictToJson(f, d, ps, l, file_path, dictionary) ==
    LET failed == Logged(l, "info", "Failed writing to file " \o PathStr(file_path)
                                        \o ". error message: ")
        dump   == JsonDump(dictionary)
    IN  IF OpenForWriteRaises(f, file_path) # None
        THEN Outcome(f, d, ps, failed, None, None)
        ELSE Outcome(Written(f, file_path, dump.text), d, ps,
                     IF dump.raised # None THEN failed ELSE l, None, None)

\* a run_subprocess that lets CalledProcessError through
RunSubprocessRaising(f, d, ps, l, command_list, exit) ==
    LET found   == \E n \in f : n.kind = "file" /\ PathStr(n.path) = command_list[1]
        l1      == Logged(l, "info", "Start running subprocess!")
        ps1     == Append(ps, [command |-> command_list, started |-> found,
                               exit |-> IF found THEN exit ELSE 0])
    IN  IF ~found THEN Outcome(f, d, ps1, l1, "FileNotFoundError", None)
        ELSE IF exit # 0
        THEN Outcome(f, d, ps1, Logged(l1, "error", "Error in running subprocess"),
                     "CalledProcessError", None)
        ELSE Outcome(f, d, ps1, Logged(l1, "info", "Finished running subprocess!"),
                     None, None)

\* winUtils.run_subprocess(command_list) in the world (f, d, ps, l), when the
\* program, if it starts, exits with status exit.  subprocess.run(check=True)
\* raises FileNotFoundError when the program is not there, which nothing catches,
\* and CalledProcessError on a status other than 0, which is caught and logged.
RunSubprocess(f, d, ps, l, command_list, exit) ==
    LET found   == \E n \in f : n.kind = "file" /\ PathStr(n.path) = command_list[1]
        l1      == Logged(l, "info", "Start running subprocess!")
        ps1     == Append(ps, [command |-> command_list, started |-> found,
                               exit |-> IF found THEN exit ELSE 0])
    IN  IF ~found THEN Outcome(f, d, ps1, l1, "FileNotFoundError", None)
        ELSE IF exit # 0
        THEN Outcome(f, d, ps1, Logged(l1, "error", "Error in running subprocess"),
                     None, None)
        ELSE Outcome(f, d, ps1, Logged(l1, "info", "Finished running subprocess!"),
                     None, None)

\* list.insert(i, x) with a 0-based index i
Insert(s, i, x) == SubSeq(s, 1, i) \o <<x>> \o SubSeq(s, i + 1, Len(s))

\* a create_encrypted_7z that does not look for the listed files
CreateEncrypted7zFilesUnchecked(f, d, ps, l, zip_path, files, password, sevenzip_path, exit) ==
    LET file_extension == Lower(SplitExt(zip_path)[2])
        names   == [i \in 1..Len(files) |-> PathStr(files[i])]
        base    == IF file_extension = ".7z"
                   THEN <<PathStr(sevenzip_path), "a", PathStr(zip_path), "-mhe=on">> \o names
                   ELSE <<PathStr(sevenzip_path), "a", PathStr(zip_path), "-tzip",
                          "-mem=AES256">> \o names
        command == IF password # None /\ password # ""
                   THEN Insert(base, 3, "-p" \o password) ELSE base
    IN  IF ~Exists(f, sevenzip_path) THEN Outcome(f, d, ps, l, "FileNotFoundError", None)
        ELSE IF file_extension \notin {".7z", ".zip"}
        THEN Outcome(f, d, ps, l, "ValueError", None)
        ELSE RunSubprocess(f, d, ps, l, command, exit)

\* winUtils.create_encrypted_7z(zip_path, files, password, sevenzip_path): the
\* checks of lines 42-47, the command for the extension (lines 50-58), the
\* password switch put at index 3 when password is neither None nor empty
CreateEncrypted7z(f, d, ps, l, zip_path, files, password, sevenzip_path, exit) ==
    LET file_extension == Lower(SplitExt(zip_path)[2])
        names   == [i \in 1..Len(files) |-> PathStr(files[i])]
        base    == IF file_extension = ".7z"
                   THEN <<PathStr(sevenzip_path), "a", PathStr(zip_path), "-mhe=on">> \o names
                   ELSE <<PathStr(sevenzip_path), "a", PathStr(zip_path), "-tzip",
                          "-mem=AES256">> \o names
        command == IF password # None /\ password # ""
                   THEN Insert(base, 3, "-p" \o password) ELSE base
    IN  IF ~Exists(f, sevenzip_path) THEN Outcome(f, d, ps, l, "FileNotFoundError", None)
        ELSE IF \E i \in 1..Len(files) : ~Exists(f, files[i])
        THEN Outcome(f, d, ps, l, "ValueError", None)
        ELSE IF file_extension \notin {".7z", ".zip"}
        THEN Outcome(f, d, ps, l, "ValueError", None)
        ELSE RunSubprocess(f, d, ps, l, command, exit)

\* pgUtils.make_connection_string_postgres(db_name, user, password, host, port,
\* dialect); for a dialect it does not know the code has no string to return
\* (connection_string was never assigned: UnboundLocalError)
make_connection_string_postgres(db_name, user, password, host, port, dialect) ==
    IF dialect = "ogr2ogr"
    THEN "PG:dbname='" \o db_name \o "' host='" \o host \o "' port='" \o port
             \o "' user='" \o user \o "' password='" \o password \o "' "
    ELSE IF dialect = "sqlalchemy"
    THEN "postgresql+psycopg2://" \o user \o ":" \o password \o "@" \o host \o ":" \o port
             \o "/" \o db_name
    ELSE IF dialect = "connectorx"
    THEN "postgresql://" \o user \o ":" \o password \o "@" \o host \o ":" \o port
             \o "/" \o db_name
    ELSE "UnboundLocalError"

\* ioUtils.ogr_load_data_to_postgis with the arguments a
OgrLoadDataToPostgis(f, d, ps, l, a, exit) ==
    LET l1      == Logged(l, "info", "Start loading data to postgres.")
        ext     == Lower(SplitExt(a.source_path)[2])
        known   == a.source_format # None \/ ext \in {".gpkg", ".shp", ".geojson"}
        connection_str == make_connection_string_postgres(a.db_name, a.user, a.password,
                                                          a.host, a.port, "ogr2ogr")
        target_table_name == IF a.target_table_name = None
                             THEN SplitExt(a.source_path)[1]
                             ELSE a.target_table_name
        target_name == a.schema_name \o "." \o target_table_name
        command == <<PathStr(a.ogr_path), "-f", "PostgreSQL", connection_str,
                     PathStr(a.source_path), "-nln", target_name>>
                   \o (IF a.overwrite THEN <<"-overwrite">> ELSE << >>)
                   \o (IF a.source_layer_name # None THEN <<a.source_layer_name>> ELSE << >>)
                   \o (IF a.target_crs # None THEN <<"-t_srs", a.target_crs>> ELSE << >>)
    IN  IF ~known THEN Outcome(f, d, ps, l1, "ValueError", None)
        ELSE RunSubprocess(f, d, ps, Logged(l1, "info", "command"), command, exit)

RECURSIVE SetToSeq(_)
\* the elements of a set as a list; the order a query without ORDER BY returns
\* rows in is not fixed, and nothing below depends on it
SetToSeq(S) ==
    IF S = {} THEN << >>
    ELSE LET x == CHOOSE x \in S : TRUE IN <<x>> \o SetToSeq(S \ {x})

\* geoUtils.list_all_features_in_geopackage_sqlite(gpkg_file).  sqlite3.connect
\* makes an empty file where nothing is and raises OperationalError when it
\* cannot open the path (a folder, or no folder above it).  The SELECT on
\* gpkg_contents raises OperationalError on an empty file, which has no such
\* table, and DatabaseError on a file that is no database.  Of a geopackage it
\* returns the feature tables, each logged at debug level
ListAllFeaturesInGeopackageSqlite(f, l, gpkg_file) ==
    LET nodes  == {n \in f : n.path = gpkg_file}
        tables == SetToSeq(UNION {n.layers : n \in nodes})
        RECURSIVE LogAll(_, _)
        LogAll(lg, i) == IF i > Len(tables) THEN lg
                         ELSE LogAll(Logged(lg, "debug", tables[i]), i + 1)
        failed(fs1, exc) == [fs |-> fs1, tables |-> << >>, log |-> l, raised |-> exc]
    IN  IF (\E a \in Ancestors(gpkg_file) : ~IsDir(f, a)) \/ IsDir(f, gpkg_file)
        THEN failed(f, "OperationalError")
        ELSE IF ~Exists(f, gpkg_file)
        THEN failed(f \cup {FileNode(gpkg_file)}, "OperationalError")
        ELSE IF ContentOf(f, gpkg_file) = "" THEN failed(f, "OperationalError")
        ELSE IF ContentOf(f, gpkg_file) # SqliteMagic THEN failed(f, "DatabaseError")
        ELSE [fs     |-> f,
              tables |-> tables,
              log    |-> LogAll(Logged(l, "debug", "All tables in the GeoPackage:"), 1),
              raised |-> None]

\* the load that never looks at what the geopackage holds
OgrLoadDataToGeopackageUnlisted(f, d, ps, l, a, exit) ==
    LET listed  == ~a.overwrite /\ Exists(f, a.geopackage_path)
        listing == ListAllFeaturesInGeopackageSqlite(f, l, a.geopackage_path)
        features_in_geopackage_path == {}
        l1      == IF listed THEN listing.log ELSE l
        base    == Basename(a.source_path)
        \* "schema.table" splits at its dot; a name without dot is a table of public
        schema  == IF base.suffix # "" THEN base.stem ELSE "public"
        table_name == IF base.suffix # "" THEN base.suffix ELSE base.stem
        postgis == a.source_type = "postgis"
        source  == IF postgis THEN a.connection_string ELSE PathStr(a.source_path)
        layer_name == IF a.layer_name # None THEN a.layer_name
                      ELSE IF postgis THEN table_name ELSE base.stem
        sql_query == "SELECT * FROM " \o schema \o "." \o table_name
        ogr2ogr_command ==
            <<PathStr(a.ogr_path), "-f", "GPKG", "-update",
              IF a.overwrite THEN "-overwrite" ELSE "-append",
              PathStr(a.geopackage_path), source, "-nln", layer_name,
              "-lco", "SPATIAL_INDEX=YES">>
            \o (IF postgis THEN <<"-sql", sql_query>> ELSE << >>)
    IN  IF listed /\ listing.raised # None
        THEN Outcome(listing.fs, d, ps, l, listing.raised, None)
        ELSE IF postgis /\ a.connection_string = None
        THEN Outcome(f, d, ps, l1, "ValueError", None)
        ELSE IF a.source_type \notin {"postgis", "shapefile", "geopackage", "geojson"}
        THEN Outcome(f, d, ps, l1, "ValueError", None)
        ELSE IF ~a.overwrite /\ layer_name \in features_in_geopackage_path
        THEN Outcome(f, d, ps, Logged(l1, "warning", "Not loading, already exists"),
                     None, None)
        ELSE RunSubprocess(f, d, ps, Logged(l1, "info", "Start"), ogr2ogr_command, exit)

\* ioUtils.ogr_load_data_to_geopackage with the arguments a
OgrLoadDataToGeopackage(f, d, ps, l, a, exit) ==
    LET listed  == ~a.overwrite /\ Exists(f, a.geopackage_path)
        listing == ListAllFeaturesInGeopackageSqlite(f, l, a.geopackage_path)
        features_in_geopackage_path == IF listed THEN Range(listing.tables) ELSE {}
        l1      == IF listed THEN listing.log ELSE l
        base    == Basename(a.source_path)
        \* "schema.table" splits at its dot; a name without dot is a table of public
        schema  == IF base.suffix # "" THEN base.stem ELSE "public"
        table_name == IF base.suffix # "" THEN base.suffix ELSE base.stem
        postgis == a.source_type = "postgis"
        source  == IF postgis THEN a.connection_string ELSE PathStr(a.source_path)
        layer_name == IF a.layer_name # None THEN a.layer_name
                      ELSE IF postgis THEN table_name ELSE base.stem
        sql_query == "SELECT * FROM " \o schema \o "." \o table_name
        ogr2ogr_command ==
            <<PathStr(a.ogr_path), "-f", "GPKG", "-update",
              IF a.overwrite THEN "-overwrite" ELSE "-append",
              PathStr(a.geopackage_path), source, "-nln", layer_name,
              "-lco", "SPATIAL_INDEX=YES">>
            \o (IF postgis THEN <<"-sql", sql_query>> ELSE << >>)
    IN  IF listed /\ listing.raised # None
        THEN Outcome(listing.fs, d, ps, l, listing.raised, None)
        ELSE IF postgis /\ a.connection_string = None
        THEN Outcome(f, d, ps, l1, "ValueError", None)
        ELSE IF a.source_type \notin {"postgis", "shapefile", "geopackage", "geojson"}
        THEN Outcome(f, d, ps, l1, "ValueError", None)
        ELSE IF ~a.overwrite /\ layer_name \in features_in_geopackage_path
        THEN Outcome(f, d, ps, Logged(l1, "warning", "Not loading, already exists"),
                     None, None)
        ELSE RunSubprocess(f, d, ps, Logged(l1, "info", "Start"), ogr2ogr_command, exit)

(***************************************************************************)
(* The database.  A statement is its SQL text; "SELEC 1" is not SQL and    *)
(* the server refuses it, "SELECT 1" returns rows.                         *)
(***************************************************************************)
Statements == {"INSERT 1", "INSERT 2", "SELECT 1", "SELEC 1"}

Fails(sql) == sql = "SELEC 1"

\* the query get_table_names_matching_wildcard builds (lines 133-137)
TablesQuery(schema, wildcard) ==
    "\n        SELECT tablename\n        FROM pg_tables\n        WHERE schemaname = '"
        \o schema \o "'AND tablename LIKE '" \o wildcard \o "';\n    "

\* the query release_all_active_db_connections builds (lines 46-50)
TerminateQuery(db_name) ==
    "SELECT pg_terminate_backend(pid)\n    FROM pg_stat_activity\n    WHERE datname = '"
        \o db_name
        \o "'\n    AND pid <> pg_backend_pid();  -- Prevent killing your own session\n    "

Schemas == {"public", "work"}

Wildcards == {"ro%", "lakes", "%"}

\* result.returns_rows: the statement is a SELECT
ReturnsRows(sql) ==
    \/ sql = "SELECT 1"
    \/ sql \in {TablesQuery(s, w) : s \in Schemas, w \in Wildcards}
    \/ sql = TerminateQuery("gis")

Wire(d, op, sql) == [d EXCEPT !.wire = Append(@, [op |-> op, sql |-> sql])]

\* engine.connect() on a database that cannot be reached
ConnectFailed(d) == Wire(d, "connect failed", "")

RECURSIVE Execute(_, _, _)
\* connection.execute for the first n statements of q, one after the other
Execute(d, q, n) == IF n = 0 THEN d ELSE Wire(Execute(d, q, n - 1), "execute", q[n])

RECURSIVE LogEach(_, _, _)
LogEach(l, n, msg) == IF n = 0 THEN l ELSE Logged(LogEach(l, n - 1, msg), "info", msg)

\* position of the first statement of q the server refuses, 0 when there is none
FirstFailing(q) ==
    IF \E i \in 1..Len(q) : Fails(q[i])
    THEN SetMin({i \in 1..Len(q) : Fails(q[i])}) ELSE 0

\* an execute_postgres_query that commits what ran before the failing statement
ExecutePostgresQueryCommitsOnError(f, d, ps, l, isstr, arg) ==
    LET q   == IF isstr THEN <<arg>> ELSE arg
        l1  == Logged(l, "info", "Executing n queries on PostgreSQL")
        k   == FirstFailing(q)
        d1  == Wire(Wire(d, "connect", ""), "begin", "")
    IN  IF ~d.reachable THEN Outcome(f, ConnectFailed(d), ps, l1, "OperationalError", None)
        ELSE IF k = 0
        THEN LET d2 == Wire(Wire(Execute(d1, q, Len(q)), "commit", ""), "close", "")
                 l2 == Logged(Logged(LogEach(l1, Len(q), "Executing query"), "info",
                           "All queries executed successfully and transaction committed."),
                           "info", "Connection closed.")
             IN  Outcome(f, [d2 EXCEPT !.committed = @ \o q], ps,
                         Logged(l2, "info", "executed in"),
                         None, [i \in 1..Len(q) |-> IF ReturnsRows(q[i]) THEN "rows" ELSE None])
        ELSE LET d2 == Wire(Wire(Execute(d1, q, k), "commit", ""), "close", "")
                 l2 == Logged(Logged(LogEach(l1, k, "Executing query"), "error",
                           "Error executing queries"), "info", "Connection closed.")
             IN  Outcome(f, [d2 EXCEPT !.committed = @ \o SubSeq(q, 1, k - 1)], ps, l2,
                         "ProgrammingError", None)

\* pgUtils.execute_postgres_query(e, q); q is a string (isstr) or a list.  The
\* connection is opened and the transaction begun before the try block; inside it
\* the statements run in list order, then the commit; any exception rolls back,
\* is logged and raised again; the connection is closed either way.  The
\* time_function wrapper logs the duration of a call that returns.
ExecutePostgresQuery(f, d, ps, l, isstr, arg) ==
    LET q   == IF isstr THEN <<arg>> ELSE arg
        l1  == Logged(l, "info", "Executing n queries on PostgreSQL")
        k   == FirstFailing(q)
        d1  == Wire(Wire(d, "connect", ""), "begin", "")
    IN  IF ~d.reachable THEN Outcome(f, ConnectFailed(d), ps, l1, "OperationalError", None)
        ELSE IF k = 0
        THEN LET d2 == Wire(Wire(Execute(d1, q, Len(q)), "commit", ""), "close", "")
                 l2 == Logged(Logged(LogEach(l1, Len(q), "Executing query"), "info",
                           "All queries executed successfully and transaction committed."),
                           "info", "Connection closed.")
             IN  Outcome(f, [d2 EXCEPT !.committed = @ \o q], ps,
                         Logged(l2, "info", "executed in"),
                         None, [i \in 1..Len(q) |-> IF ReturnsRows(q[i]) THEN "rows" ELSE None])
        ELSE LET d2 == Wire(Wire(Execute(d1, q, k), "rollback", ""), "close", "")
                 l2 == Logged(Logged(LogEach(l1, k, "Executing query"), "error",
                           "Error executing queries"), "info", "Connection closed.")
             IN  Outcome(f, d2, ps, l2, "ProgrammingError", None)

\* the engine connect_postgres_database makes; create_engine connects to nothing
Engine(url) == [url |-> url]

\* pgUtils.connect_postgres_database(user, password, host, port, dbname)
ConnectPostgresDatabase(f, d, ps, l, user, password, host, port, dbname) ==
    LET conn_string == make_connection_string_postgres(dbname, user, password, host, port,
                                                       "sqlalchemy")
    IN  Outcome(f, d, ps,
                Logged(l, "info", "Succesfullly created engine to database " \o dbname
                                      \o " for user " \o user \o "."),
                None, Engine(conn_string))

\* pgUtils.release_all_active_db_connections(engine), the engine being one of
\* the database db_name: the query goes through execute_postgres_query, and
\* what that raises reaches the caller before the last record is logged
ReleaseAllActiveDbConnections(f, d, ps, l, db_name) ==
    LET o == ExecutePostgresQuery(f, d, ps, l, TRUE, TerminateQuery(db_name))
    IN  IF o.raised # None THEN o
        ELSE Outcome(o.fs, o.db, o.procs,
                     Logged(o.log, "info", "Terminated all active sesions on database: "
                                               \o db_name),
                     None, None)

\* open(p, "r"): the exception it raises, None when it opens; a file in the
\* place of a folder above p gives NotADirectoryError
OpenForReadRaises(f, p) ==
    LET bad == {k \in 1..(Len(p) - 1) : ~IsDir(f, SubSeq(p, 1, k))}
    IN  IF bad # {}
        THEN (IF IsFile(f, SubSeq(p, 1, SetMin(bad))) THEN "NotADirectoryError"
              ELSE "FileNotFoundError")
        ELSE IF IsDir(f, p) THEN "IsADirectoryError"
        ELSE IF ~IsFile(f, p) THEN "FileNotFoundError"
        ELSE None

\* pgUtils.execute_postgres_query_from_file(engine, query_file_path): the text
\* of the file is one query string
ExecutePostgresQueryFromFile(f, d, ps, l, query_file_path) ==
    IF ~Exists(f, query_file_path) THEN Outcome(f, d, ps, l, "FileNotFoundError", None)
    ELSE IF OpenForReadRaises(f, query_file_path) # None
    THEN Outcome(f, d, ps, l, OpenForReadRaises(f, query_file_path), None)
    ELSE LET query_string == (CHOOSE n \in f : n.path = query_file_path).content
         IN  ExecutePostgresQuery(f, d, ps, l, TRUE, query_string)

\* what the database holds for a table that was written
TableStatement(schema_name, table_name) == "TABLE " \o schema_name \o "." \o table_name

\* tablename LIKE wildcard, for the wildcards in use
Like(tablename, wildcard) ==
    IF wildcard = "%" THEN TRUE
    ELSE IF wildcard = "ro%" THEN tablename \in {"roads", "routes"}
    ELSE tablename = wildcard

\* the tables of the schema the database holds
TablesOf(d, schema) ==
    {t \in {"roads", "routes", "lakes"} : TableStatement(schema, t) \in Range(d.committed)}

\* pgUtils.get_table_names_matching_wildcard(engine, schema, wildcard): the
\* query returns rows, one per table, and the first column of each is handed
\* back; the handler of lines 142-144 is for a result that cannot be walked
GetTableNamesMatchingWildcard(f, d, ps, l, schema, wildcard) ==
    LET o    == ExecutePostgresQuery(f, d, ps, l, TRUE, TablesQuery(schema, wildcard))
        rows == SetToSeq({t \in TablesOf(d, schema) : Like(t, wildcard)})
    IN  IF o.raised # None THEN o
        ELSE IF o.returned[1] = None
        THEN Outcome(o.fs, o.db, o.procs,
                     Logged(o.log, "info", "Cant return tables based on query"), None, << >>)
        ELSE Outcome(o.fs, o.db, o.procs, o.log, None, rows)

\* a read_postgres_to_pandas_df that logs the error and returns nothing
ReadPostgresToPandasDfSwallowing(f, d, ps, l, query) ==
    IF ~d.reachable
    THEN Outcome(f, ConnectFailed(d), ps, Logged(l, "error", "Error while fetching data"),
                 None, None)
    ELSE LET d1 == Wire(Wire(Wire(d, "connect", ""), "execute", query), "close", "")
         IN  IF Fails(query)
             THEN Outcome(f, d1, ps, Logged(l, "error", "Error while fetching data"),
                          None, None)
             ELSE Outcome(f, d1, ps,
                          Logged(l, "info", "Query executed and data loaded into Pandas DataFrame."),
                          None, "DataFrame")

\* ioUtils.read_postgres_to_pandas_df(query, engine): pd.read_sql inside a try
\* block whose handler logs the error and raises it again
ReadPostgresToPandasDf(f, d, ps, l, query) ==
    IF ~d.reachable
    THEN Outcome(f, ConnectFailed(d), ps, Logged(l, "error", "Error while fetching data"),
                 "OperationalError", None)
    ELSE LET d1 == Wire(Wire(Wire(d, "connect", ""), "execute", query), "close", "")
         IN  IF Fails(query)
             THEN Outcome(f, d1, ps, Logged(l, "error", "Error while fetching data"),
                          "ProgrammingError", None)
             ELSE Outcome(f, d1, ps,
                          Logged(l, "info", "Query executed and data loaded into Pandas DataFrame."),
                          None, "DataFrame")

\* DataFrame.to_sql(table_name, engine, schema=schema_name, if_exists=if_exists):
\* connects, writes the table and commits; if_exists="fail" raises ValueError on a
\* table that is there
ToSql(d, table_name, schema_name, if_exists) ==
    LET t == TableStatement(schema_name, table_name)
    IN  IF ~d.reachable THEN [db |-> ConnectFailed(d), raised |-> "OperationalError"]
        ELSE IF if_exists = "fail" /\ t \in Range(d.committed)
        THEN [db |-> Wire(Wire(d, "connect", ""), "close", ""), raised |-> "ValueError"]
        ELSE [db |-> [Wire(Wire(Wire(Wire(d, "connect", ""), "execute", t), "commit", ""),
                           "close", "")
                         EXCEPT !.committed = Append(@, t)],
              raised |-> None]

\* ioUtils.write_pandas_to_postgres(df, table_name, schema_name, engine, if_exists):
\* to_sql inside a try block whose handler logs the error and raises it again
WritePandasToPostgres(f, d, ps, l, table_name, schema_name, if_exists) ==
    LET w == ToSql(d, table_name, schema_name, if_exists)
    IN  IF w.raised # None
        THEN Outcome(f, w.db, ps, Logged(l, "error", "Error while writing data"),
                     w.raised, None)
        ELSE Outcome(f, w.db, ps,
                     Logged(Logged(l, "info", "Data successfully written to DB"),
                            "info", "executed in"),
                     None, None)

\* GeoSeries.geom_type
GeomType(g) == IF IsPoint(g) THEN "Point" ELSE "Polygon"

\* pyproj.CRS(srid).to_epsg()
ToEpsg(srid) == IF srid = "EPSG:31370" THEN 31370 ELSE 3812

\* geoalchemy2.WKTElement(x.wkt, srid=srid)
WKTElement(g, srid) == [wkt |-> g, srid |-> srid]

\* ioUtils.write_geopandas_to_postgis(gdf, table_name, schema_name, engine,
\* if_exists, sindex, srid, geometry_col) with the arguments a.  The frame the
\* caller passed gets a column "geom" (line 170).  Line 196 reads a name e that
\* neither the function nor the module defines: with sindex true the call raises
\* NameError there, after to_sql has written the table.
WriteGeopandasToPostgis(f, d, ps, l, gdf, a) ==
    LET l1     == Logged(l, "info", "Start writing to postgis table")
        srid   == ToEpsg(a.srid)
        gtypes == {GeomType(Geometry(gdf)[i]) : i \in 1..Len(gdf.rows)}
        l2     == Logged(l1, "info", "The following geometry types were found")
        values == Column(gdf, a.geometry_col)
        gdf1   == SetItem(gdf, "geom",
                     [i \in 1..Len(gdf.rows) |->
                         IF values[i].empty THEN [wkt |-> None, srid |-> srid]
                         ELSE WKTElement(values[i], srid)])
        wantedcols == {c \in Range(gdf1.cols) : c # a.geometry_col}
        gtype  == IF Cardinality(gtypes) = 1 THEN CHOOSE t \in gtypes : TRUE ELSE "geometry"
        l3     == Logged(l2, "info", "Using geom type " \o gtype)
        w      == ToSql(d, a.table_name, a.schema_name, a.if_exists)
        l4     == Logged(l3, "info", "Finished writing postgis table")
    IN  IF a.srid \notin Frames
        THEN [gdf |-> gdf, out |-> Outcome(f, d, ps, l1, "CRSError", None)]
        ELSE IF gdf.gcol = None
        THEN [gdf |-> gdf, out |-> Outcome(f, d, ps, l1, "AttributeError", None)]
        ELSE IF ~HasColumn(gdf, a.geometry_col)
        THEN [gdf |-> gdf, out |-> Outcome(f, d, ps, l2, "KeyError", None)]
        ELSE IF w.raised # None
        THEN [gdf |-> gdf1, out |-> Outcome(f, w.db, ps, l3, w.raised, None)]
        ELSE IF a.sindex
        THEN [gdf |-> gdf1, out |-> Outcome(f, w.db, ps, l3, "NameError", None)]
        ELSE [gdf |-> gdf1, out |-> Outcome(f, w.db, ps, l4, None, None)]

(***************************************************************************)
(* Calls of the helpers that reach outside the process.  A behaviour is    *)
(* one call in a world as Init found it.                                   *)
(***************************************************************************)
MaxFiles == 2
MaxQueries == 2

SevenZip == << Name("7z", "exe") >>

Ogr2ogr == << Name("ogr2ogr", "exe") >>

Documents == { << Name("a", "txt") >>, << Name("b", "txt") >> }

Archives == { << Name("out", "7z") >>, << Name("out", "ZIP") >>, << Name("out", "rar") >> }

\* the documents hold one SQL statement each
DocumentText(p) == IF p = << Name("a", "txt") >> THEN "INSERT 1" ELSE "SELEC 1"

\* a file of queries that is not there
QueryFile == << Name("q", "sql") >>

\* where write_dict_to_json is told to write: a document, a new file in the
\* working directory, a path that may be a folder and a path below it
JsonTargets ==
    { << Name("a", "txt") >>, << Name("out", "json") >>, << Name("a", "") >>,
      << Name("a", ""), Name("out", "json") >> }

JsonDicts ==
    { << >>,
      << Entry("a", PyInt(1)) >>,
      << Entry("a", PyInt(1)), Entry("b", PySet) >> }

Store == << Name("store", "gpkg") >>

Sources == { << Name("roads", "gpkg") >>, << Name("roads", "shp") >>, << Name("roads", "txt") >> }

ConnectionString ==
    make_connection_string_postgres("gis", "gaucho", "secret", "localhost", "5432", "ogr2ogr")

ExitStatuses == {0, 1}

\* the frame handed to write_geopandas_to_postgis
Parcels ==
    TargetFrame(<< [name |-> 1, geom |-> Point(3, 3)], [name |-> 2, geom |-> Box(0, 0, 4, 4)] >>,
                "EPSG:31370", "geometry")

InitExternal ==
    /\ \E programs \in SUBSET {SevenZip, Ogr2ogr}, documents \in SUBSET Documents,
          stores \in {{}, {FileNode(Store)}, {GeoPackageNode(Store, {})},
                      {GeoPackageNode(Store, {"roads"})}} :
            fs = {FileNode(x) : x \in programs}
                     \cup {FileWith(x, DocumentText(x)) : x \in documents} \cup stores
    /\ \E reachable \in BOOLEAN,
          committed \in {<< >>, << TableStatement("public", "roads") >>} :
            db = [reachable |-> reachable, committed |-> committed, wire |-> << >>]
    /\ procs = << >>
    /\ log = << >>
    /\ call = NoCall
    /\ heap = << Parcels >>
    /\ target = 1
    /\ mask = 1
    /\ params = [add_select_attr |-> FALSE, predicate |-> "within",
                 crs |-> "EPSG:31370", tolerance_m |-> 1]
    /\ pre = heap
    /\ out = << >>
    /\ pc = "outside"

\* the caller calls fn(args) and gets the outcome o
Called(fn, args, o) ==
    /\ call.fn = None
    /\ call' = [fn |-> fn, args |-> args, raised |-> o.raised, returned |-> o.returned,
                before |-> [fs |-> fs, db |-> db, procs |-> procs, log |-> log]]
    /\ fs' = o.fs
    /\ db' = o.db
    /\ procs' = o.procs
    /\ log' = o.log

\* a handler of the root logger: its class, its level and the file it writes
Handler(class, level, filename) == [class |-> class, level |-> level, filename |-> filename]

\* logging.basicConfig(): a StreamHandler for the root logger when it has no
\* handler
BasicConfig(handlers) ==
    IF handlers = << >> THEN << Handler("StreamHandler", 0, "") >> ELSE handlers

\* the handlers of the root logger after a call that brought the log from l to
\* l2: logging.info and the functions like it call logging.basicConfig()
\* first when the root logger has no handler
RootHandlers(handlers, l, l2) == IF l2 # l THEN BasicConfig(handlers) ELSE handlers

\* a call that leaves the objects of the process but the handlers of the root
\* logger, where these are the objects
WithRootLogger ==
    /\ heap' = RootHandlers(heap, log, log')
    /\ UNCHANGED <<target, mask, params, pre, out, pc>>

run_subprocess ==
    \E program \in {SevenZip, Ogr2ogr}, exit \in ExitStatuses :
        LET command_list == <<PathStr(program), "--version">>
        IN  /\ Called("run_subprocess", [command_list |-> command_list, exit |-> exit],
                      RunSubprocess(fs, db, procs, log, command_list, exit))
            /\ UNCHANGED selection

create_encrypted_7z ==
    \E zip_path \in Archives, files \in SeqsUpTo(Documents, MaxFiles),
       password \in {None, "", "pw"}, exit \in ExitStatuses :
        /\ Called("create_encrypted_7z",
                  [zip_path |-> zip_path, files |-> files, password |-> password,
                   sevenzip_path |-> SevenZip, exit |-> exit],
                  CreateEncrypted7z(fs, db, procs, log, zip_path, files, password,
                                    SevenZip, exit))
        /\ UNCHANGED selection

ogr_load_data_to_postgis ==
    \E source_path \in Sources, source_layer_name \in {None, "highways"},
       target_table_name \in {None, "ways"}, overwrite \in BOOLEAN,
       source_format \in {None, "GPKG"}, target_crs \in {None, "EPSG:4326"},
       exit \in ExitStatuses :
        LET a == [ogr_path |-> Ogr2ogr, source_path |-> source_path, db_name |-> "gis",
                  user |-> "gaucho", password |-> "secret", host |-> "localhost",
                  port |-> "5432", source_layer_name |-> source_layer_name,
                  target_table_name |-> target_table_name, schema_name |-> "public",
                  overwrite |-> overwrite, source_format |-> source_format,
                  target_crs |-> target_crs, exit |-> exit]
        IN  /\ Called("ogr_load_data_to_postgis", a,
                      OgrLoadDataToPostgis(fs, db, procs, log, a, exit))
            /\ UNCHANGED selection

ogr_load_data_to_geopackage ==
    \E source \in {[type |-> "shapefile", path |-> << Name("roads", "shp") >>],
                   [type |-> "geojson", path |-> << Name("lakes", "geojson") >>],
                   [type |-> "postgis", path |-> << Name("gis", "roads") >>],
                   [type |-> "postgis", path |-> << Name("roads", "") >>],
                   [type |-> "csv", path |-> << Name("roads", "csv") >>]},
       connection_string \in {None, ConnectionString}, layer_name \in {None, "ways", "roads"},
       overwrite \in BOOLEAN, exit \in ExitStatuses :
        LET a == [ogr_path |-> Ogr2ogr, geopackage_path |-> Store,
                  source_path |-> source.path, source_type |-> source.type,
                  layer_name |-> layer_name, connection_string |-> connection_string,
                  overwrite |-> overwrite, exit |-> exit]
        IN  /\ Called("ogr_load_data_to_geopackage", a,
                      OgrLoadDataToGeopackage(fs, db, procs, log, a, exit))
            /\ UNCHANGED selection

execute_postgres_query ==
    \/ \E q \in Statements :
        /\ Called("execute_postgres_query", [isstr |-> TRUE, q |-> <<q>>],
                  ExecutePostgresQuery(fs, db, procs, log, TRUE, q))
        /\ UNCHANGED selection
    \/ \E q \in SeqsUpTo(Statements, MaxQueries) :
        /\ Called("execute_postgres_query", [isstr |-> FALSE, q |-> q],
                  ExecutePostgresQuery(fs, db, procs, log, FALSE, q))
        /\ UNCHANGED selection

read_postgres_to_pandas_df ==
    \E query \in {"SELECT 1", "SELEC 1"} :
        /\ Called("read_postgres_to_pandas_df", [query |-> query],
                  ReadPostgresToPandasDf(fs, db, procs, log, query))
        /\ UNCHANGED selection

write_pandas_to_postgres ==
    \E table_name \in {"roads", "lakes"}, if_exists \in {"replace", "append", "fail"} :
        /\ Called("write_pandas_to_postgres",
                  [table_name |-> table_name, schema_name |-> "public",
                   if_exists |-> if_exists],
                  WritePandasToPostgres(fs, db, procs, log, table_name, "public", if_exists))
        /\ UNCHANGED selection

\* the frame passed is the caller's object heap[target]
write_geopandas_to_postgis ==
    \E table_name \in {"roads", "lakes"}, if_exists \in {"replace", "fail"},
       sindex \in BOOLEAN, srid \in GivenFrames, geometry_col \in {"geometry", "shape"} :
        LET a == [table_name |-> table_name, schema_name |-> "public",
                  if_exists |-> if_exists, sindex |-> sindex, srid |-> srid,
                  geometry_col |-> geometry_col]
            w == WriteGeopandasToPostgis(fs, db, procs, log, heap[target], a)
        IN  /\ Called("write_geopandas_to_postgis", a, w.out)
            /\ heap' = [heap EXCEPT ![target] = w.gdf]
            /\ UNCHANGED <<target, mask, params, pre, out, pc>>

execute_postgres_query_from_file ==
    \E query_file_path \in Documents \cup {QueryFile} :
        /\ Called("execute_postgres_query_from_file", [query_file_path |-> query_file_path],
                  ExecutePostgresQueryFromFile(fs, db, procs, log, query_file_path))
        /\ UNCHANGED selection

get_table_names_matching_wildcard ==
    \E schema \in Schemas, wildcard \in Wildcards :
        /\ Called("get_table_names_matching_wildcard",
                  [schema |-> schema, wildcard |-> wildcard],
                  GetTableNamesMatchingWildcard(fs, db, procs, log, schema, wildcard))
        /\ UNCHANGED selection

release_all_active_db_connections ==
    /\ Called("release_all_active_db_connections", [db_name |-> "gis"],
              ReleaseAllActiveDbConnections(fs, db, procs, log, "gis"))
    /\ UNCHANGED selection

connect_postgres_database ==
    /\ Called("connect_postgres_database",
              [user |-> "gaucho", password |-> "secret", host |-> "localhost",
               port |-> "5432", dbname |-> "gis"],
              ConnectPostgresDatabase(fs, db, procs, log, "gaucho", "secret", "localhost",
                                      "5432", "gis"))
    /\ UNCHANGED selection

\* where a geopackage is looked for: the store, a document, a path below a
\* folder that is not there
ListedPaths ==
    { Store, << Name("a", "txt") >>, << Name("data", ""), Name("store", "gpkg") >> }

list_all_features_in_geopackage_sqlite ==
    \E gpkg_file \in ListedPaths :
        LET o == ListAllFeaturesInGeopackageSqlite(fs, log, gpkg_file)
        IN  /\ Called("list_all_features_in_geopackage_sqlite", [gpkg_file |-> gpkg_file],
                      Outcome(o.fs, db, procs, o.log, o.raised,
                              IF o.raised = None THEN o.tables ELSE None))
            /\ UNCHANGED selection

write_dict_to_json ==
    \E file_path \in JsonTargets, dictionary \in JsonDicts :
        /\ Called("write_dict_to_json", [file_path |-> file_path, dictionary |-> dictionary],
                  WriteDictToJson(fs, db, procs, log, file_path, dictionary))
        /\ WithRootLogger

NextExternal ==
    \/ list_all_features_in_geopackage_sqlite
    \/ run_subprocess
    \/ create_encrypted_7z
    \/ ogr_load_data_to_postgis
    \/ ogr_load_data_to_geopackage
    \/ execute_postgres_query
    \/ read_postgres_to_pandas_df
    \/ write_pandas_to_postgres
    \/ write_geopandas_to_postgis
    \/ execute_postgres_query_from_file
    \/ get_table_names_matching_wildcard
    \/ release_all_active_db_connections
    \/ connect_postgres_database
    \/ write_dict_to_json

SpecExternal == InitExternal /\ [][NextExternal]_vars

\* the call that was made, and the world as it found it
Made(fn) == call.fn = fn

Before == call.before

\* the calls of subprocess.run the call made
Runs == SubSeq(procs, Len(Before.procs) + 1, Len(procs))

\* the records the call logged
NewLog == SubSeq(log, Len(Before.log) + 1, Len(log))

LoggedAt(level) == \E i \in 1..Len(NewLog) : NewLog[i].level = level

\* what the call asked of the database
NewWire == SubSeq(db.wire, Len(Before.db.wire) + 1, Len(db.wire))

ViaRunSubprocess ==
    {"run_subprocess", "create_encrypted_7z", "ogr_load_data_to_postgis",
     "ogr_load_data_to_geopackage"}

\* the call started an external process and the process exited with a status
\* other than 0
ProcessFailed ==
    /\ call.fn \in ViaRunSubprocess
    /\ Len(Runs) = 1
    /\ Runs[1].started
    /\ Runs[1].exit # 0

ProcessSucceeded ==
    /\ call.fn \in ViaRunSubprocess
    /\ Len(Runs) = 1
    /\ Runs[1].started
    /\ Runs[1].exit = 0

(***************************************************************************)
(* C12.  A call of run_subprocess, ogr_load_data_to_geopackage,            *)
(* ogr_load_data_to_postgis or create_encrypted_7z whose external process  *)
(* exits with a status other than 0 logs the failure, raises nothing and   *)
(* returns None, which is what a call whose process exits with 0 returns:  *)
(* return value and exception do not tell the caller which it was.         *)
(***************************************************************************)
C12_ProcessFailureLoggedNotRaised ==
    /\ ProcessFailed => /\ LoggedAt("error")
                        /\ call.raised = None
                        /\ call.returned = None
    /\ ProcessSucceeded => /\ ~LoggedAt("error")
                           /\ call.raised = None
                           /\ call.returned = None

C12_Witness ==
    /\ Made("ogr_load_data_to_geopackage")
    /\ ProcessFailed
    /\ LoggedAt("error")

\* the call was made with the database out of reach
DatabaseUnreachable == call.fn # None /\ ~Before.db.reachable

\* how often the call tried to connect to the database
ConnectAttempts ==
    Cardinality({i \in 1..Len(NewWire) : NewWire[i].op \in {"connect", "connect failed"}})

\* run_subprocess was called for a program that is not there
ExecutableMissing ==
    /\ Made("run_subprocess")
    /\ \A n \in Before.fs : PathStr(n.path) # call.args.command_list[1]

RaisedOnce(attempts) == call.raised # None /\ attempts = 1

(***************************************************************************)
(* C13.  As claimed: with the database out of reach,                       *)
(* read_postgres_to_pandas_df, write_pandas_to_postgres and                *)
(* execute_postgres_query log the error and raise it to the caller after   *)
(* one attempt, and so does run_subprocess for a program that is missing.  *)
(***************************************************************************)
C13_ExternalErrorsLoggedAndRaised ==
    /\ DatabaseUnreachable
         /\ call.fn \in {"read_postgres_to_pandas_df", "write_pandas_to_postgres",
                         "execute_postgres_query"}
         => RaisedOnce(ConnectAttempts) /\ LoggedAt("error")
    /\ ExecutableMissing => RaisedOnce(Len(Runs)) /\ LoggedAt("error")

\* C13 as amended: in all four cases the error is raised to the caller after one
\* attempt.  read_postgres_to_pandas_df and write_pandas_to_postgres log it first.
\* execute_postgres_query opens its connection outside its try block and
\* run_subprocess catches CalledProcessError only: a failure to connect and a
\* missing program reach the caller without an error record in the log.
C13_ExternalErrorsRaisedLoggedInsideTry ==
    /\ DatabaseUnreachable
         /\ call.fn \in {"read_postgres_to_pandas_df", "write_pandas_to_postgres"}
         => RaisedOnce(ConnectAttempts) /\ LoggedAt("error")
    /\ DatabaseUnreachable /\ Made("execute_postgres_query")
         => RaisedOnce(ConnectAttempts) /\ ~LoggedAt("error")
    /\ ExecutableMissing => RaisedOnce(Len(Runs)) /\ ~LoggedAt("error")

\* execute_postgres_query was called with the database out of reach and raised
C13_Witness ==
    /\ DatabaseUnreachable
    /\ Made("execute_postgres_query")
    /\ call.raised = "OperationalError"
    /\ Len(call.args.q) = 2

\* positions in what the call asked of the database
WireAt(op) == {i \in 1..Len(NewWire) : NewWire[i].op = op}

\* the statements the call had the database execute, in the order it sent them
Executed == [k \in 1..Cardinality(WireAt("execute")) |->
                NewWire[SortedSeq(WireAt("execute"))[k]].sql]

(***************************************************************************)
(* C14.  execute_postgres_query on a database it can reach: if a query of  *)
(* the list fails the call raises, the transaction is rolled back and what *)
(* is committed in the database is what was committed before the call; a   *)
(* commit is sent only after every query of the list was executed, in list *)
(* order, and none failed, and then the whole list is committed.           *)
(***************************************************************************)
C14_AllOrNothing ==
    Made("execute_postgres_query") /\ Before.db.reachable =>
        /\ (\E i \in 1..Len(call.args.q) : Fails(call.args.q[i]))
             => /\ call.raised # None
                /\ WireAt("rollback") # {}
                /\ WireAt("commit") = {}
                /\ db.committed = Before.db.committed
        /\ WireAt("commit") # {} \/ db.committed # Before.db.committed
             => /\ call.raised = None
                /\ Executed = call.args.q
                /\ \A i \in 1..Len(Executed) : ~Fails(Executed[i])
                /\ \A c \in WireAt("commit"), x \in WireAt("execute") : x < c
                /\ db.committed = Before.db.committed \o call.args.q

\* a list whose second query fails, after the first was executed
C14_Witness ==
    /\ Made("execute_postgres_query")
    /\ Before.db.reachable
    /\ Len(call.args.q) = 2
    /\ ~Fails(call.args.q[1])
    /\ Fails(call.args.q[2])
    /\ Executed = call.args.q
    /\ call.raised # None

(***************************************************************************)
(* C15.  A call of create_encrypted_7z whose 7z process exits with a       *)
(* status other than 0 raises CalledProcessError to its caller.            *)
(***************************************************************************)
C15_FailedArchiveRaises ==
    Made("create_encrypted_7z") /\ ProcessFailed => call.raised = "CalledProcessError"

\* the 7z process exited with status 1 and the call returned None
C15_Divergence ==
    /\ Made("create_encrypted_7z")
    /\ ProcessFailed
    /\ call.raised = None
    /\ call.returned = None

\* the switches a password could show up as in a command
PasswordSwitches == {"-p" \o pw : pw \in {None, "", "pw"}}

SevenZipMissing == ~Exists(Before.fs, call.args.sevenzip_path)

ListedFileMissing ==
    \E i \in 1..Len(call.args.files) : ~Exists(Before.fs, call.args.files[i])

\* the archive is named neither .7z nor .zip, in whatever case
ExtensionUnsupported == Basename(call.args.zip_path).suffix \notin {"7z", "7Z", "zip", "ZIP"}

(***************************************************************************)
(* C16.  create_encrypted_7z raises FileNotFoundError when nothing is at   *)
(* sevenzip_path, ValueError when a listed file does not exist and         *)
(* ValueError when the archive is named neither .7z nor .zip; in these     *)
(* cases subprocess.run is not called.  Otherwise it is called once, with  *)
(* a command that holds the switch -p<password> when a password (a string  *)
(* that is not empty) was given and no password switch when none was.      *)
(***************************************************************************)
C16_ValidatesBeforeRunning ==
    Made("create_encrypted_7z") =>
        /\ SevenZipMissing => call.raised = "FileNotFoundError" /\ Runs = << >>
        /\ ~SevenZipMissing /\ ListedFileMissing
             => call.raised = "ValueError" /\ Runs = << >>
        /\ ~SevenZipMissing /\ ~ListedFileMissing /\ ExtensionUnsupported
             => call.raised = "ValueError" /\ Runs = << >>
        /\ ~SevenZipMissing /\ ~ListedFileMissing /\ ~ExtensionUnsupported
             => /\ Len(Runs) = 1
                /\ Range(Runs[1].command) \cap PasswordSwitches =
                     IF call.args.password \in {None, ""} THEN {}
                     ELSE {"-p" \o call.args.password}

\* 7-Zip is there, a listed file is not: ValueError and no process
C16_Witness ==
    /\ Made("create_encrypted_7z")
    /\ ~SevenZipMissing
    /\ ListedFileMissing
    /\ ~ExtensionUnsupported
    /\ call.args.password = "pw"
    /\ call.raised = "ValueError"
    /\ Runs = << >>

\* a call that passed the checks, with a password
C16_PasswordGiven ==
    /\ Made("create_encrypted_7z")
    /\ Len(Runs) = 1
    /\ Len(call.args.files) = 2
    /\ Runs[1].command[4] = "-ppw"

\* ogr_load_data_to_postgis got as far as starting ogr2ogr
OgrCommand == Runs[1].command

\* the value that follows -nln in the command
TargetName == OgrCommand[IndexOf(OgrCommand, "-nln") + 1]

(***************************************************************************)
(* C17.  As claimed: the command ogr_load_data_to_postgis builds names the *)
(* target table after source_layer_name when target_table_name is not      *)
(* given, and holds -overwrite exactly when overwrite is true.             *)
(***************************************************************************)
C17_TableNamedAfterSourceLayer ==
    Made("ogr_load_data_to_postgis") /\ Len(Runs) = 1 =>
        /\ call.args.target_table_name = None /\ call.args.source_layer_name # None
             => TargetName = call.args.schema_name \o "." \o call.args.source_layer_name
        /\ "-overwrite" \in Range(OgrCommand) <=> call.args.overwrite

\* what the code does: the table is named after the file, whatever the layer;
\* -overwrite is in the command exactly when overwrite is true
C17_TableNamedAfterFile ==
    Made("ogr_load_data_to_postgis") /\ Len(Runs) = 1 =>
        /\ TargetName = call.args.schema_name \o "." \o
               (IF call.args.target_table_name = None
                THEN Basename(call.args.source_path).stem
                ELSE call.args.target_table_name)
        /\ "-overwrite" \in Range(OgrCommand) <=> call.args.overwrite

\* layer highways of roads.gpkg, no table name given: the table is public.roads
C17_Divergence ==
    /\ Made("ogr_load_data_to_postgis")
    /\ Len(Runs) = 1
    /\ call.args.target_table_name = None
    /\ call.args.source_layer_name = "highways"
    /\ TargetName = "public.roads"

\* the statement line 198 would send for a table
IndexStatement(table_name) ==
    "CREATE INDEX " \o table_name \o "_gix ON " \o table_name \o " USING GIST(geom);"

\* the call sent a statement that creates an index
IndexRequested ==
    \E i \in WireAt("execute") : NewWire[i].sql = IndexStatement(call.args.table_name)

\* the call wrote its table
TableWritten ==
    /\ Len(db.committed) = Len(Before.db.committed) + 1
    /\ db.committed[Len(db.committed)] =
           TableStatement(call.args.schema_name, call.args.table_name)

\* a call of write_geopandas_to_postgis that to_sql can serve: the database is
\* reachable, srid is known, geometry_col is a column of the frame, and the table
\* is not one that if_exists="fail" refuses
Writable ==
    /\ Made("write_geopandas_to_postgis")
    /\ Before.db.reachable
    /\ call.args.srid \in Frames
    /\ call.args.geometry_col = "geometry"
    /\ ~(call.args.if_exists = "fail"
           /\ TableStatement(call.args.schema_name, call.args.table_name)
                \in Range(Before.db.committed))

(***************************************************************************)
(* C18.  As claimed: write_geopandas_to_postgis with sindex true writes    *)
(* the table, then creates the GIST index on geom and returns without      *)
(* error; with sindex false it sends no statement that creates an index.   *)
(***************************************************************************)
C18_TableThenIndex ==
    Writable =>
        IF call.args.sindex
        THEN /\ call.raised = None
             /\ TableWritten
             /\ \E i \in WireAt("execute") :
                    /\ NewWire[i].sql = IndexStatement(call.args.table_name)
                    /\ \E j \in WireAt("execute") :
                           /\ j < i
                           /\ NewWire[j].sql = TableStatement(call.args.schema_name,
                                                              call.args.table_name)
        ELSE ~IndexRequested

\* what holds: without sindex the table is written, no index is asked for and the
\* call returns
C18_NoIndexWithoutSindex ==
    Writable /\ ~call.args.sindex => TableWritten /\ ~IndexRequested /\ call.raised = None

\* with sindex the table is written, the call raises NameError and no index exists
C18_Divergence ==
    /\ Writable
    /\ call.args.sindex
    /\ TableWritten
    /\ call.raised = "NameError"
    /\ ~IndexRequested

(***************************************************************************)
(* Folders and files: winUtils.create_folder_if_not_exists and             *)
(* winUtils.delete_path, and the functions that make folders and write     *)
(* files: pathUtils.create_folder_if_not_exists, write_dict_to_json,       *)
(* write_geopandas_to_file, polars_to_geoparquet and setup_logging.  A     *)
(* behaviour is one call on a file system made of up to MaxLeaves branches *)
(* of up to MaxDepth components; the test of create_folder_if_not_exists   *)
(* makes a path of four.                                                   *)
(***************************************************************************)
MaxDepth == 4
MaxLeaves == 2

\* the names in use: two in the working directory and in its folders, one
\* further down
Components(level) ==
    IF level <= 2 THEN {Name("a", ""), Name("b", "")} ELSE {Name("a", "")}

Paths ==
    UNION {{p \in [1..k -> Components(1)] : \A i \in 1..k : p[i] \in Components(i)} :
              k \in 1..MaxDepth}

IsPrefix(p, q) == Len(p) <= Len(q) /\ SubSeq(q, 1, Len(p)) = p

\* os.mkdir for p alone: the folder above must be there
MakedirsNoParents(f, p, exist_ok) ==
    IF \E a \in Ancestors(p) : ~IsDir(f, a)
    THEN [fs |-> f, raised |-> "FileNotFoundError"]
    ELSE IF Exists(f, p)
    THEN IF IsDir(f, p) /\ exist_ok THEN [fs |-> f, raised |-> None]
         ELSE [fs |-> f, raised |-> "FileExistsError"]
    ELSE [fs |-> f \cup {DirNode(p)}, raised |-> None]

\* os.makedirs(p, exist_ok=exist_ok): makes the folders above p that are missing,
\* then p.  A file in the place of a folder above p stops it with
\* NotADirectoryError before anything is made; p itself being there raises
\* FileExistsError unless it is a folder and exist_ok is true.
Makedirs(f, p, exist_ok) ==
    IF \E a \in Ancestors(p) : IsFile(f, a)
    THEN [fs |-> f, raised |-> "NotADirectoryError"]
    ELSE IF Exists(f, p)
    THEN IF IsDir(f, p) /\ exist_ok THEN [fs |-> f, raised |-> None]
         ELSE [fs |-> f, raised |-> "FileExistsError"]
    ELSE [fs |-> f \cup {DirNode(a) : a \in {x \in Ancestors(p) \cup {p} : ~Exists(f, x)}},
          raised |-> None]

\* winUtils.create_folder_if_not_exists(path, exists_ok): os.makedirs in a try
\* block; an OSError (the three above are OSErrors) is logged and not raised
CreateFolderIfNotExists(f, d, ps, l, path, exists_ok) ==
    LET m == Makedirs(f, path, exists_ok)
    IN  IF m.raised = None
        THEN Outcome(m.fs, d, ps, Logged(l, "info", "Created folder (or already exists)"),
                     None, None)
        ELSE Outcome(m.fs, d, ps, Logged(l, "error", "Error creating directory"),
                     None, None)

\* a delete_path that removes a folder and leaves what was in it
DeletePathFolderOnly(f, d, ps, l, path) ==
    IF IsFile(f, path)
    THEN Outcome({n \in f : n.path # path}, d, ps, l, None, None)
    ELSE IF IsDir(f, path)
    THEN Outcome({n \in f : n.path # path}, d, ps, l, None, None)
    ELSE Outcome(f, d, ps, Logged(l, "warning", "No object found to remove at path"),
                 None, None)

\* winUtils.delete_path(path): os.remove for a file, shutil.rmtree for a folder,
\* a warning when the path is neither
DeletePath(f, d, ps, l, path) ==
    IF IsFile(f, path)
    THEN Outcome({n \in f : n.path # path}, d, ps, l, None, None)
    ELSE IF IsDir(f, path)
    THEN Outcome({n \in f : ~IsPrefix(path, n.path)}, d, ps, l, None, None)
    ELSE Outcome(f, d, ps, Logged(l, "warning", "No object found to remove at path"),
                 None, None)

\* pathUtils.create_folder_if_not_exists(path): os.makedirs when nothing is at
\* the path, logged when it made the folder; what os.makedirs raises is raised
PathUtilsCreateFolderIfNotExists(f, d, ps, l, path) ==
    IF Exists(f, path) THEN Outcome(f, d, ps, l, None, None)
    ELSE LET m == Makedirs(f, path, FALSE)
         IN  IF m.raised # None THEN Outcome(f, d, ps, l, m.raised, None)
             ELSE Outcome(m.fs, d, ps, Logged(l, "info", "Created folder: " \o PathStr(path)),
                          None, None)

\* the error of the library that writes the file for geopandas
LibraryError(engine) == IF engine = "pyogrio" THEN "DataSourceError" ELSE "DriverError"

\* the files of a shapefile
ShapefileParts == {"shp", "shx", "dbf", "cpg", "prj"}

\* gdf.to_file(filename, driver=driver, layer=layer).  A GeoPackage is one
\* file that gets the layer.  A shapefile whose name has no extension is a
\* folder of that name with the files of the layer in it, the layer named
\* after the folder.  The folder above must be there in both cases.
ToFile(f, filename, driver, layer, engine) ==
    IF driver = "GPKG"
    THEN IF OpenForWriteRaises(f, filename) # None
         THEN [fs |-> f, raised |-> LibraryError(engine)]
         ELSE [fs |-> {n \in f : n.path # filename} \cup
                      {GeoPackageNode(filename,
                                      UNION {n.layers : n \in {m \in f : m.path = filename}}
                                          \cup {layer})},
               raised |-> None]
    ELSE IF (\E a \in Ancestors(filename) : ~IsDir(f, a)) \/ IsFile(f, filename)
         THEN [fs |-> f, raised |-> LibraryError(engine)]
         ELSE [fs |-> f \cup {DirNode(filename)}
                        \cup {FileNode(Append(filename, Name(Basename(filename).stem, part))) :
                                 part \in ShapefileParts},
               raised |-> None]

\* ioUtils.write_geopandas_to_file(gdf, foldername, layername, driver): the
\* folder is made unless the name ends with .gpkg; a GeoPackage is written
\* at foldername, any other format at foldername/layername
WriteGeopandasToFile(f, d, ps, l, foldername, layername, driver, engine) ==
    LET started == Logged(l, "info", "writing spatial dataframe " \o layername \o " to "
                                         \o PathStr(foldername))
        folder  == IF Basename(foldername).suffix = "gpkg"
                   THEN Outcome(f, d, ps, started, None, None)
                   ELSE PathUtilsCreateFolderIfNotExists(f, d, ps, started, foldername)
        written == IF driver = "GPKG"
                   THEN ToFile(folder.fs, foldername, driver, layername, engine)
                   ELSE ToFile(folder.fs, Append(foldername, Name(layername, "")), driver,
                               layername, engine)
    IN  IF folder.raised # None THEN folder
        ELSE IF written.raised # None
        THEN Outcome(written.fs, d, ps, folder.log, written.raised, None)
        ELSE Outcome(written.fs, d, ps,
                     Logged(folder.log, "info", "Successfully wrote spatial dataframe"),
                     None, None)

\* what a parquet file starts with
ParquetMagic == "PAR1"

\* ioUtils.polars_to_geoparquet(polars_df, geoparquet_path, geom_col, crs):
\* the frame goes through polars_to_pandas and pandas_to_geopandas and is
\* written with to_parquet, which opens the path for writing; time_function
\* logs when the call returns
PolarsToGeoparquet(f, d, ps, l, polars_df, cols, geoparquet_path, geom_col, crs) ==
    LET started == Logged(l, "info", "Start converting polars to geoparquet. n="
                                         \o ToString(Height(polars_df, cols))
                                         \o " rows. crs = " \o crs)
        pdf     == PolarsToPandas(<<polars_df>>, started, 1, cols)
        pdf_geo == PandasToGeopandas(pdf.heap, pdf.log, pdf.returned, geom_col, crs)
    IN  IF pdf_geo.raised # None THEN Outcome(f, d, ps, pdf_geo.log, pdf_geo.raised, None)
        ELSE IF OpenForWriteRaises(f, geoparquet_path) # None
        THEN Outcome(f, d, ps, pdf_geo.log, OpenForWriteRaises(f, geoparquet_path), None)
        ELSE Outcome(Written(f, geoparquet_path, ParquetMagic), d, ps,
                     Logged(pdf_geo.log, "info", "executed in"), None, None)

\* the file the environment variable LOG_CONFIG names
ConfigFile == << Name("logging", "json") >>

\* the folder the configuration asks the log files to be in
LogDirectory == << Name("a", ""), Name("b", "") >>

\* configurations: with a log directory and two file handlers, with a log
\* directory and no handlers, without a log directory
FullConfig ==
    "{\"version\": 1, \"log_directory\": \"a/b\", \"handlers\": {"
        \o "\"info_file_handler\": {\"class\": \"logging.FileHandler\", "
        \o "\"level\": \"INFO\", \"filename\": \"info.log\"}, "
        \o "\"error_file_handler\": {\"class\": \"logging.FileHandler\", "
        \o "\"level\": \"ERROR\", \"filename\": \"errors.log\"}}, "
        \o "\"root\": {\"level\": \"INFO\", "
        \o "\"handlers\": [\"info_file_handler\", \"error_file_handler\"]}}"

NoHandlersConfig == "{\"version\": 1, \"log_directory\": \"a/b\"}"

NoDirectoryConfig == "{\"version\": 1}"

ConfigTexts == {FullConfig, NoHandlersConfig, NoDirectoryConfig}

\* json.load of the text of a file: whether the text is JSON, and of the
\* dictionary of a configuration the log directory (the empty path when the
\* key is not there), whether it has handlers, and their file names
JsonLoad(text) ==
    IF text = FullConfig
    THEN [json |-> TRUE, log_directory |-> LogDirectory, handlers |-> TRUE,
          info |-> Name("info", "log"), error |-> Name("errors", "log")]
    ELSE IF text = NoHandlersConfig
    THEN [json |-> TRUE, log_directory |-> LogDirectory, handlers |-> FALSE,
          info |-> Name("", ""), error |-> Name("", "")]
    ELSE IF text = NoDirectoryConfig
    THEN [json |-> TRUE, log_directory |-> << >>, handlers |-> FALSE,
          info |-> Name("", ""), error |-> Name("", "")]
    ELSE [json |-> FALSE, log_directory |-> << >>, handlers |-> FALSE,
          info |-> Name("", ""), error |-> Name("", "")]

\* logging of _set_basic_logging
SetBasicLogging(l) ==
    Logged(l, "info", "Logging Config path not found - using basic setup")

\* logUtils.setup_logging() with environ the values the environment has for
\* LOG_CONFIG: one, or none when the variable is not set; os.getenv gives
\* None then and os.path.exists(None) raises TypeError.  With a
\* log directory the folder is made when nothing is at its path, dictConfig
\* opens the files of the two handlers, the error handler first, and raises
\* ValueError when it cannot; the record logged at the end goes to the info
\* file
SetupLogging(f, d, ps, l, environ) ==
    IF environ = {} THEN Outcome(f, d, ps, l, "TypeError", None)
    ELSE LET path == CHOOSE p \in environ : TRUE IN
    IF ~Exists(f, path)
    THEN Outcome(f, d, ps,
                 Logged(SetBasicLogging(l), "info",
                        "Logging Config path not found - using basic setup"),
                 None, None)
    ELSE IF IsDir(f, path) THEN Outcome(f, d, ps, l, "IsADirectoryError", None)
    ELSE LET config == JsonLoad(ContentOf(f, path))
         IN  IF ~config.json THEN Outcome(f, d, ps, l, "JSONDecodeError", None)
             ELSE IF config.log_directory = << >>
             THEN Outcome(f, d, ps,
                          Logged(SetBasicLogging(l), "info",
                                 "No log directory found, using basic setup"),
                          None, None)
             ELSE IF ~config.handlers THEN Outcome(f, d, ps, l, "KeyError", None)
             ELSE LET log_dir == config.log_directory
                      made    == IF Exists(f, log_dir) THEN [fs |-> f, raised |-> None]
                                 ELSE Makedirs(f, log_dir, FALSE)
                      info    == Append(log_dir, config.info)
                      error   == Append(log_dir, config.error)
                      success == "Logging Config setup success."
                  IN  IF made.raised # None
                      THEN Outcome(f, d, ps, l, made.raised, None)
                      ELSE IF OpenForWriteRaises(made.fs, error) # None
                      THEN Outcome(made.fs, d, ps, l, "ValueError", None)
                      ELSE Outcome(Written(Written(made.fs, error,
                                                   ContentOf(made.fs, error)),
                                           info, ContentOf(made.fs, info) \o success \o "\n"),
                                   d, ps, Logged(l, "info", success), None, None)

\* os.path.dirname(path)
Dirname(p) == PathStr(SubSeq(p, 1, Len(p) - 1))

\* str(e) of the OSError open() raises for path p
OsErrorText(exc, p) ==
    IF exc = "FileNotFoundError"
    THEN "[Errno 2] No such file or directory: '" \o PathStr(p) \o "'"
    ELSE IF exc = "IsADirectoryError"
    THEN "[Errno 21] Is a directory: '" \o PathStr(p) \o "'"
    ELSE "[Errno 20] Not a directory: '" \o PathStr(p) \o "'"

\* the texts of the CSV files: two records, and the header alone
CsvText == "name,label\n1,a1\n2,b7\n"

CsvHeader == "name,label\n"

\* a pandas DataFrame of the columns and the records given, index 0, 1, ...
DataFrame(cols, values) ==
    [crs  |-> None,
     gcol |-> None,
     cols |-> cols,
     rows |-> [i \in 1..Len(values) |-> [idx |-> i - 1, vals |-> values[i]]]]

\* pd.read_csv(path, delimiter=delimiter) of the text of a file: the first
\* line names the columns, split at the delimiter; a text without the
\* delimiter is one column of whole lines
ParseCsv(text, delimiter) ==
    CASE text = CsvText /\ delimiter = "," ->
             DataFrame(<<"name", "label">>, << <<1, "a1">>, <<2, "b7">> >>)
      [] text = CsvText /\ delimiter = ";" ->
             DataFrame(<<"name,label">>, << <<"1,a1">>, <<"2,b7">> >>)
      [] text = CsvHeader /\ delimiter = "," -> DataFrame(<<"name", "label">>, << >>)
      [] text = CsvHeader /\ delimiter = ";" -> DataFrame(<<"name,label">>, << >>)

\* ioUtils.read_csv_to_dataframe(path, delimiter): what pd.read_csv raises is
\* logged at level error and raised again; an empty file has no columns to
\* parse
ReadCsvToDataframe(f, d, ps, l, path, delimiter) ==
    LET filename == NameStr(Basename(path))
        started  == Logged(l, "info", "Reading CSV file '" \o filename \o "' from folder '"
                                          \o Dirname(path) \o "'")
        failed(text) == Logged(started, "error", "Failed to read CSV file '" \o filename
                                                     \o "'. Error: " \o text)
        exc      == OpenForReadRaises(f, path)
        df       == ParseCsv(ContentOf(f, path), delimiter)
    IN  IF exc # None
        THEN Outcome(f, d, ps, failed(OsErrorText(exc, path)), exc, None)
        ELSE IF ContentOf(f, path) = ""
        THEN Outcome(f, d, ps, failed("No columns to parse from file"), "EmptyDataError",
                     None)
        ELSE Outcome(f, d, ps,
                     Logged(started, "info",
                            "Finished reading CSV file . Number of rows = "
                                \o ToString(Len(df.rows)) \o " (path: " \o PathStr(path)
                                \o ")"),
                     None, df)

\* the error of the library that reads the file for geopandas when the layer
\* asked for is not in the file
LayerError(engine) == IF engine = "pyogrio" THEN "DataLayerError" ELSE "ValueError"

\* gpd.read_file(filename, layer=layer).  A shapefile is read with its index
\* file beside it; its .shp file stands for the feature it holds, by the WKT
\* text of the geometry.  A layer of a geopackage stands for its name only and
\* holds no feature.  The empty path, a path where nothing is, a folder
\* without layers and a file in no known format raise the error of the
\* library.
ReadFile(f, filename, layer, engine) ==
    LET shx == Append(SubSeq(filename, 1, Len(filename) - 1),
                      Name(Basename(filename).stem, "shx"))
        gdf(geometries) ==
            [crs  |-> None,
             gcol |-> "geometry",
             cols |-> <<"geometry">>,
             rows |-> [i \in 1..Len(geometries) |->
                         [idx |-> i - 1, vals |-> <<geometries[i]>>]]]
    IN  IF filename = << >> \/ ~IsFile(f, filename) \/ ContentOf(f, filename) = ""
        THEN [gdf |-> gdf(<< >>), raised |-> LibraryError(engine)]
        ELSE IF ContentOf(f, filename) = SqliteMagic
        THEN IF \E n \in f : n.path = filename /\ layer \in n.layers
             THEN [gdf |-> gdf(<< >>), raised |-> None]
             ELSE [gdf |-> gdf(<< >>), raised |-> LayerError(engine)]
        ELSE IF Basename(filename).suffix = "shp" /\ IsFile(f, shx)
                /\ safe_wkt_load(ContentOf(f, filename)) # NoGeometry
        THEN [gdf |-> gdf(<< safe_wkt_load(ContentOf(f, filename)) >>), raised |-> None]
        ELSE [gdf |-> gdf(<< >>), raised |-> LibraryError(engine)]

\* ioUtils.read_file_to_geodataframe(path, driver): with the driver GPKG the
\* folder part of the path is the file and the last part the layer
ReadFileToGeodataframe(f, d, ps, l, path, driver, engine) ==
    LET layername  == NameStr(Basename(path))
        foldername == SubSeq(path, 1, Len(path) - 1)
        started    == Logged(l, "info", "reading spatial dataframe " \o layername \o " from "
                                            \o PathStr(foldername))
        read       == IF driver = "GPKG" THEN ReadFile(f, foldername, layername, engine)
                      ELSE ReadFile(f, path, None, engine)
    IN  IF read.raised # None THEN Outcome(f, d, ps, started, read.raised, None)
        ELSE Outcome(f, d, ps,
                     Logged(started, "info",
                            "Finished reading spatial dataframe " \o layername
                                \o ". size = " \o ToString(Len(read.gdf.rows))),
                     None, read.gdf)

\* isinstance(handler, logging.StreamHandler); a FileHandler is a StreamHandler
IsStreamHandler(handler) == handler.class \in {"StreamHandler", "FileHandler"}

\* logging.getLevelName(level)
GetLevelName(level) ==
    IF level = 50 THEN "CRITICAL"
    ELSE IF level = 40 THEN "ERROR"
    ELSE IF level = 30 THEN "WARNING"
    ELSE IF level = 20 THEN "INFO"
    ELSE IF level = 10 THEN "DEBUG"
    ELSE IF level = 0 THEN "NOTSET"
    ELSE "Level " \o ToString(level)

\* logUtils.override_stream_log_level(new_level) on the handlers of the root
\* logger: the first StreamHandler gets the level and the change is logged;
\* without a StreamHandler nothing happens
OverrideStreamLogLevel(handlers, l, new_level) ==
    LET streams == {i \in 1..Len(handlers) : IsStreamHandler(handlers[i])}
    IN  IF streams = {} THEN [handlers |-> handlers, log |-> l]
        ELSE [handlers |-> [handlers EXCEPT ![SetMin(streams)].level = new_level],
              log      |-> Logged(l, "info", "Console log level changed to: "
                                                 \o GetLevelName(new_level))]

\* the handlers of the root logger after setup_logging: a call that raises
\* leaves them; logging.basicConfig adds a StreamHandler when there is none;
\* dictConfig puts the handlers of the configuration in their place
HandlersAfterSetup(f, d, ps, l, environ, handlers) ==
    LET o == SetupLogging(f, d, ps, l, environ)
    IN  IF o.raised # None THEN handlers
        ELSE IF o.log[Len(o.log)].msg = "Logging Config setup success."
        THEN << Handler("FileHandler", 20, PathStr(Append(LogDirectory, Name("info", "log")))),
                Handler("FileHandler", 40,
                        PathStr(Append(LogDirectory, Name("errors", "log")))) >>
        ELSE BasicConfig(handlers)

\* the file system in which leaf, a file or a folder, was made with the folders
\* above it
Branch(leaf) == {DirNode(a) : a \in Ancestors(leaf.path)} \cup {leaf}

\* no path is both a file and a folder, and nothing lies below a file
Consistent(f) ==
    \A n \in f, m \in f :
        /\ n.path = m.path => n = m
        /\ n.kind = "file" /\ n # m => ~IsPrefix(n.path, m.path)

FileSystems ==
    LET leaves == {FileNode(p) : p \in Paths} \cup {DirNode(p) : p \in Paths}
        sets   == UNION {{ {s[i] : i \in 1..k} : s \in [1..k -> leaves] } : k \in 0..MaxLeaves}
    IN  {f \in {UNION {Branch(x) : x \in L} : L \in sets} : Consistent(f)}

\* a file system with the configuration of logging in the working directory
Configured(f, text) == f \cup {FileWith(ConfigFile, text)}

\* a file system with a CSV file, a shapefile and a geopackage in the working
\* directory
WithData(f, text) ==
    f \cup {FileWith(<< Name("data", "csv") >>, text),
            FileWith(<< Name("roads", "shp") >>, Wkt(Point(3, 3))),
            FileNode(<< Name("roads", "shx") >>), FileNode(<< Name("roads", "dbf") >>),
            GeoPackageNode(<< Name("store", "gpkg") >>, {"roads"})}

\* the handlers of the root logger before the call: none, the one of
\* logging.basicConfig, and one that is no StreamHandler before it
HandlerLists ==
    { << >>, << Handler("StreamHandler", 0, "") >>,
      << Handler("NullHandler", 0, ""), Handler("StreamHandler", 20, "") >> }

\* the objects of the process are the handlers of the root logger
InitFiles ==
    /\ fs \in FileSystems \cup
              {Configured(f, text) : f \in {x \in FileSystems : Cardinality(x) <= 2},
                                     text \in ConfigTexts} \cup
              {WithData(f, text) : f \in {x \in FileSystems : Cardinality(x) <= 1},
                                   text \in {CsvText, CsvHeader}}
    /\ db = None
    /\ procs = << >>
    /\ log = << >>
    /\ call = NoCall
    /\ heap \in IF Cardinality(fs) <= 1 THEN HandlerLists ELSE {<< >>}
    /\ target = 0
    /\ mask = 0
    /\ params = [add_select_attr |-> FALSE, predicate |-> "within",
                 crs |-> "EPSG:31370", tolerance_m |-> 1]
    /\ pre = heap
    /\ out = << >>
    /\ pc = "outside"

create_folder_if_not_exists ==
    \E path \in Paths, exists_ok \in BOOLEAN :
        /\ Called("create_folder_if_not_exists", [path |-> path, exists_ok |-> exists_ok],
                  CreateFolderIfNotExists(fs, db, procs, log, path, exists_ok))
        /\ WithRootLogger

delete_path ==
    \E path \in Paths :
        /\ Called("delete_path", [path |-> path], DeletePath(fs, db, procs, log, path))
        /\ WithRootLogger

pathUtils_create_folder_if_not_exists ==
    \E path \in Paths :
        /\ Called("pathUtils.create_folder_if_not_exists", [path |-> path],
                  PathUtilsCreateFolderIfNotExists(fs, db, procs, log, path))
        /\ WithRootLogger

\* how write_geopandas_to_file is called: a shapefile into a folder, a layer
\* into a geopackage, a shapefile with the name of a geopackage for a folder
FileTargets ==
    { [foldername |-> << Name("a", "") >>, driver |-> "ESRI Shapefile"],
      [foldername |-> << Name("a", ""), Name("b", "") >>, driver |-> "ESRI Shapefile"],
      [foldername |-> << Name("store", "gpkg") >>, driver |-> "GPKG"],
      [foldername |-> << Name("store", "gpkg") >>, driver |-> "ESRI Shapefile"] }

write_geopandas_to_file ==
    \E to \in FileTargets, engine \in {"pyogrio", "fiona"} :
        /\ Called("write_geopandas_to_file",
                  [foldername |-> to.foldername, layername |-> "roads",
                   driver |-> to.driver, engine |-> engine],
                  WriteGeopandasToFile(fs, db, procs, log, to.foldername, "roads",
                                       to.driver, engine))
        /\ WithRootLogger

\* where polars_to_geoparquet is told to write
ParquetTargets ==
    { << Name("out", "parquet") >>, << Name("a", "") >>,
      << Name("a", ""), Name("out", "parquet") >> }

polars_to_geoparquet ==
    \E values \in {<< >>, << <<1, <<"a", "1", "b">>, "POINT (3 3)">> >>},
       geoparquet_path \in ParquetTargets, geom_col \in {"geom", "geometry"},
       crs \in {"EPSG:31370", "EPSG:0"} :
        /\ Called("polars_to_geoparquet",
                  [polars_df |-> FromPandas(Table(values)),
                   geoparquet_path |-> geoparquet_path, geom_col |-> geom_col,
                   crs |-> crs],
                  PolarsToGeoparquet(fs, db, procs, log, FromPandas(Table(values)),
                                     TableColumns, geoparquet_path, geom_col, crs))
        /\ WithRootLogger

setup_logging ==
    \E environ \in {{}, {ConfigFile}, {<< Name("a", "") >>}} :
        /\ Called("setup_logging", [environ |-> environ],
                  SetupLogging(fs, db, procs, log, environ))
        /\ heap' = HandlersAfterSetup(fs, db, procs, log, environ, heap)
        /\ UNCHANGED <<target, mask, params, pre, out, pc>>

\* how read_csv_to_dataframe is called
CsvSources ==
    { << Name("data", "csv") >>, << Name("a", "") >>, << Name("a", ""), Name("b", "csv") >> }

read_csv_to_dataframe ==
    \E path \in CsvSources, delimiter \in {",", ";"} :
        /\ Called("read_csv_to_dataframe", [path |-> path, delimiter |-> delimiter],
                  ReadCsvToDataframe(fs, db, procs, log, path, delimiter))
        /\ WithRootLogger

\* how read_file_to_geodataframe is called: a shapefile, a layer of a
\* geopackage, and the driver GPKG with the path of a shapefile
FileSources ==
    { [path |-> << Name("roads", "shp") >>, driver |-> "ESRI Shapefile"],
      [path |-> << Name("a", ""), Name("roads", "shp") >>, driver |-> "ESRI Shapefile"],
      [path |-> << Name("a", "") >>, driver |-> "ESRI Shapefile"],
      [path |-> << Name("store", "gpkg"), Name("roads", "") >>, driver |-> "GPKG"],
      [path |-> << Name("store", "gpkg"), Name("lakes", "") >>, driver |-> "GPKG"],
      [path |-> << Name("roads", "shp") >>, driver |-> "GPKG"] }

read_file_to_geodataframe ==
    \E from \in FileSources, engine \in {"pyogrio", "fiona"} :
        /\ Called("read_file_to_geodataframe",
                  [path |-> from.path, driver |-> from.driver, engine |-> engine],
                  ReadFileToGeodataframe(fs, db, procs, log, from.path, from.driver,
                                         engine))
        /\ WithRootLogger

override_stream_log_level ==
    \E new_level \in {10, 15, 20} :
        LET o == OverrideStreamLogLevel(heap, log, new_level)
        IN  /\ Called("override_stream_log_level", [new_level |-> new_level],
                      Outcome(fs, db, procs, o.log, None, None))
            /\ heap' = o.handlers
            /\ UNCHANGED <<target, mask, params, pre, out, pc>>

NextFiles ==
    \/ create_folder_if_not_exists
    \/ delete_path
    \/ pathUtils_create_folder_if_not_exists
    \/ write_geopandas_to_file
    \/ write_dict_to_json
    \/ polars_to_geoparquet
    \/ setup_logging
    \/ read_csv_to_dataframe
    \/ read_file_to_geodataframe
    \/ override_stream_log_level

SpecFiles == InitFiles /\ [][NextFiles]_vars

\* the folders above the path of the call, and the ones that were missing
Above == Ancestors(call.args.path)

MissingAbove == {a \in Above : ~Exists(Before.fs, a)}

\* create_folder_if_not_exists was called on a path that was not there, below
\* two or more folders that were not there either
DeepMissingPath ==
    /\ Made("create_folder_if_not_exists")
    /\ ~Exists(Before.fs, call.args.path)
    /\ Cardinality(MissingAbove) >= 2

\* the path and every folder above it are folders now, and what was there before
\* is as it was
PathMade ==
    /\ \A a \in Above \cup {call.args.path} : IsDir(fs, a)
    /\ fs = Before.fs \cup {DirNode(a) : a \in MissingAbove \cup {call.args.path}}

\* a file stands where a folder above the path should be
FileInTheWay == \E a \in Above : IsFile(Before.fs, a)

(***************************************************************************)
(* C19.  As claimed: after create_folder_if_not_exists(path) on a path     *)
(* whose last component and several folders above it do not exist, the     *)
(* path and all folders above it exist.                                    *)
(***************************************************************************)
C19_MissingFoldersMade == DeepMissingPath => PathMade

\* C19 as amended: the path and all folders above it exist after the call unless
\* a file stands in the place of one of the folders above it; then nothing is
\* made, the error is logged and the call returns without raising.
C19_MissingFoldersMadeUnlessFileInTheWay ==
    DeepMissingPath =>
        /\ call.raised = None
        /\ IF FileInTheWay
           THEN fs = Before.fs /\ LoggedAt("error")
           ELSE PathMade /\ ~LoggedAt("error")

\* the case of the test: a path of MaxDepth components, none of them there, made
\* in one call beside what the file system held
C19_Witness ==
    /\ DeepMissingPath
    /\ Len(call.args.path) = MaxDepth
    /\ Cardinality(MissingAbove) = MaxDepth - 1
    /\ Before.fs # {}
    /\ PathMade

\* a file above the path: nothing made
C19_Divergence ==
    /\ DeepMissingPath
    /\ FileInTheWay
    /\ fs = Before.fs

\* what the call found below its path
Below(p) == {n \in Before.fs : IsPrefix(p, n.path) /\ n.path # p}

(***************************************************************************)
(* C20.  delete_path(path) on a file removes that file and nothing else;   *)
(* on a folder it removes the folder and everything below it and nothing   *)
(* else; on a path where nothing is it leaves the file system as it was    *)
(* and logs a warning.  It raises in none of the three cases.              *)
(***************************************************************************)
C20_RemovesExactlyTheNamedObject ==
    Made("delete_path") =>
        /\ call.raised = None
        /\ IsFile(Before.fs, call.args.path)
             => fs = Before.fs \ {FileNode(call.args.path)}
        /\ IsDir(Before.fs, call.args.path)
             => fs = Before.fs \ ({DirNode(call.args.path)} \cup Below(call.args.path))
        /\ ~Exists(Before.fs, call.args.path)
             => fs = Before.fs /\ LoggedAt("warning")
        /\ Exists(Before.fs, call.args.path) => ~LoggedAt("warning")

\* a folder with something in it was removed, and something beside it stayed
C20_Witness ==
    /\ Made("delete_path")
    /\ IsDir(Before.fs, call.args.path)
    /\ Below(call.args.path) # {}
    /\ fs # {}
    /\ \A n \in fs : ~IsPrefix(call.args.path, n.path)

(***************************************************************************)
(* helperUtils: pure functions over numbers and strings.  A string is      *)
(* worked on as its sequence of characters and handed back as a string.    *)
(***************************************************************************)
MaxNum == 120

MaxLength == 3

Digit(d) == <<"0", "1", "2", "3", "4", "5", "6", "7", "8", "9">>[d + 1]

RECURSIVE Digits(_)
Digits(n) == IF n < 10 THEN <<Digit(n)>> ELSE Digits(n \div 10) \o <<Digit(n % 10)>>

\* str(num) of an int: a minus sign for a negative number, then its decimal digits
Str(num) == IF num < 0 THEN <<"-">> \o Digits(0 - num) ELSE Digits(num)

Zeros(n) == [i \in 1..n |-> "0"]

RECURSIVE Join(_)
Join(chars) == IF chars = << >> THEN "" ELSE Head(chars) \o Join(Tail(chars))

\* str.zfill(width): a string of width or more characters comes back as it
\* is; a shorter one gets zeros on the left, after a leading sign
Zfill(chars, width) ==
    IF Len(chars) >= width THEN chars
    ELSE IF chars # << >> /\ Head(chars) \in {"+", "-"}
         THEN <<Head(chars)>> \o Zeros(width - Len(chars)) \o Tail(chars)
         ELSE Zeros(width - Len(chars)) \o chars

GenerateZeroBasedIndex(num, length) == Join(Zfill(Str(num), length))

MaxBound == 3

MaxColumn == 1

Labels == {"low", "high"}

\* a dictionary as the sequence of its items, in iteration order; keys are distinct
Item(label, lower, upper) == [label |-> label, lower |-> lower, upper |-> upper]

RECURSIVE ClassifyValueUpperInclusive(_, _)
RECURSIVE ClassifyValue(_, _)
\* the same walk with ranges that take in their upper bound
ClassifyValueUpperInclusive(value, classification_dict) ==
    IF classification_dict = << >> THEN None
    ELSE LET item == Head(classification_dict)
         IN  IF item.lower <= value /\ value <= item.upper THEN item.label
             ELSE ClassifyValueUpperInclusive(value, Tail(classification_dict))

\* the items of the dictionary are walked in order; the first range that
\* holds the value gives its label
ClassifyValue(value, classification_dict) ==
    IF classification_dict = << >> THEN None
    ELSE LET item == Head(classification_dict)
         IN  IF item.lower <= value /\ value < item.upper THEN item.label
             ELSE ClassifyValue(value, Tail(classification_dict))

\* the classify_value defined inside polars_classify_column, over its ranges
RECURSIVE InnerClassifyValue(_, _)
InnerClassifyValue(value, ranges) ==
    IF ranges = << >> THEN None
    ELSE LET item == Head(ranges)
         IN  IF item.lower <= value /\ value < item.upper THEN item.label
             ELSE InnerClassifyValue(value, Tail(ranges))

\* a polars DataFrame: a function from column names to columns of equal height
WithColumns(df, name, column) ==
    [c \in DOMAIN df \cup {name} |-> IF c = name THEN column ELSE df[c]]

DropColumn(df, name) == [c \in DOMAIN df \ {name} |-> df[c]]

MapElements(column, ranges) ==
    [i \in 1..Len(column) |-> InnerClassifyValue(column[i], ranges)]

PolarsClassifyColumn(df, col_name, ranges, new_col_name, drop_input_col) ==
    LET classified == WithColumns(df, new_col_name, MapElements(df[col_name], ranges))
    IN  IF drop_input_col THEN DropColumn(classified, col_name) ELSE classified

(***************************************************************************)
(* The calls of the helpers: the arguments of one call are drawn at the    *)
(* start, and the call is made once.                                       *)
(***************************************************************************)
Dictionaries ==
    {d \in SeqsUpTo({Item(l, lo, up) : l \in Labels, lo \in 0..MaxBound, up \in 0..MaxBound},
                    Cardinality(Labels)) :
        \A i, j \in 1..Len(d) : i # j => d[i].label # d[j].label}

Columns == {c \in SeqsUpTo(0..MaxBound, MaxColumn) : c # << >>}

IndexCalls ==
    [fn : {"generate_zero_based_index"}, num : (0 - MaxNum)..MaxNum, length : 0..MaxLength]

ClassifyCalls ==
    [fn : {"classify_value"}, value : 0..MaxBound, classification_dict : Dictionaries]

ColumnCalls ==
    [fn : {"polars_classify_column"}, column : Columns, ranges : Dictionaries,
     new_col_name : {"class", "v"}, drop_input_col : BOOLEAN]

InitHelpers ==
    /\ params \in IndexCalls \cup ClassifyCalls \cup ColumnCalls
    /\ NoWorld
    /\ call = NoCall
    /\ heap = << >>
    /\ target = 0
    /\ mask = 0
    /\ pre = heap
    /\ out = << >>
    /\ pc = "outside"

generate_zero_based_index ==
    /\ params.fn = "generate_zero_based_index"
    /\ Called("generate_zero_based_index", [num |-> params.num, length |-> params.length],
              Outcome(fs, db, procs, log, None,
                      GenerateZeroBasedIndex(params.num, params.length)))
    /\ UNCHANGED selection

classify_value ==
    /\ params.fn = "classify_value"
    /\ Called("classify_value",
              [value |-> params.value, classification_dict |-> params.classification_dict],
              Outcome(fs, db, procs, log, None,
                      ClassifyValue(params.value, params.classification_dict)))
    /\ UNCHANGED selection

polars_classify_column ==
    /\ params.fn = "polars_classify_column"
    /\ LET df == [c \in {"id", "v"} |->
                     IF c = "v" THEN params.column
                     ELSE [i \in 1..Len(params.column) |-> i]]
       IN  Called("polars_classify_column",
                  [df |-> df, col_name |-> "v", ranges |-> params.ranges,
                   new_col_name |-> params.new_col_name,
                   drop_input_col |-> params.drop_input_col],
                  Outcome(fs, db, procs, log, None,
                          PolarsClassifyColumn(df, "v", params.ranges, params.new_col_name,
                                               params.drop_input_col)))
    /\ UNCHANGED selection

NextHelpers == generate_zero_based_index \/ classify_value \/ polars_classify_column

SpecHelpers == InitHelpers /\ [][NextHelpers]_vars

(***************************************************************************)
(* C21.  generate_zero_based_index(num, length) returns a string of        *)
(* exactly length characters, whatever integer num is.                     *)
(***************************************************************************)
C21_ExactlyLengthCharacters ==
    Made("generate_zero_based_index") => Len(call.returned) = call.args.length

\* the number has more characters than the length asked for, and the string
\* that came back is longer than that length
C21_Divergence ==
    /\ Made("generate_zero_based_index")
    /\ call.args.num = 100
    /\ call.args.length = 2
    /\ call.returned = "100"

\* what the code keeps: never shorter than length, and exactly length when
\* the number, with its sign, fits
C21_AtLeastLengthCharacters ==
    Made("generate_zero_based_index") =>
        /\ Len(call.returned) >= call.args.length
        /\ Len(Str(call.args.num)) <= call.args.length
               => Len(call.returned) = call.args.length

\* the layer name the load works under: the given name, else the table name
\* of a postgis source, else the base name of the source file
ResolvedLayerName ==
    LET base == Basename(call.args.source_path)
    IN  IF call.args.layer_name # None THEN call.args.layer_name
        ELSE IF call.args.source_type = "postgis"
             THEN (IF base.suffix # "" THEN base.suffix ELSE base.stem)
             ELSE base.stem

\* the target geopackage was there before the call and held the layer
TargetHoldsLayer ==
    \E n \in Before.fs : /\ n.path = call.args.geopackage_path
                         /\ ResolvedLayerName \in n.layers

LoadSkipped ==
    /\ Runs = << >>
    /\ LoggedAt("warning")
    /\ call.returned = None

LoadStartedOnce ==
    /\ Len(Runs) = 1
    /\ Runs[1].started
    /\ OgrCommand[1] = PathStr(call.args.ogr_path)
    /\ "-overwrite" \in Range(OgrCommand) <=> call.args.overwrite
    /\ "-append" \in Range(OgrCommand) <=> ~call.args.overwrite

(***************************************************************************)
(* C22.  A call of ogr_load_data_to_geopackage that raises nothing, made   *)
(* with overwrite false on a target geopackage that exists and holds a     *)
(* layer of the resolved layer name, logs a warning, returns and starts    *)
(* no process; every other call that raises nothing starts ogr2ogr exactly *)
(* once, with -overwrite when overwrite is true and -append when not.      *)
(***************************************************************************)
C22_SkipsLayerAlreadyLoaded ==
    Made("ogr_load_data_to_geopackage") /\ call.raised = None =>
        IF ~call.args.overwrite /\ TargetHoldsLayer THEN LoadSkipped ELSE LoadStartedOnce

\* the given layer name is in the geopackage and the load is skipped
C22_Witness ==
    /\ Made("ogr_load_data_to_geopackage")
    /\ call.raised = None
    /\ ~call.args.overwrite
    /\ call.args.layer_name = "roads"
    /\ call.args.source_type = "geojson"
    /\ TargetHoldsLayer
    /\ LoadSkipped

\* the same layer with overwrite true is loaded over
C22_OverwriteLoads ==
    /\ Made("ogr_load_data_to_geopackage")
    /\ call.args.overwrite
    /\ TargetHoldsLayer
    /\ LoadStartedOnce

\* the range of the item holds the value: lower bound in, upper bound out
InRange(item, value) == item.lower <= value /\ value < item.upper

\* the places of the dictionary's items whose range holds the value
MatchingRanges(value, dict) == {i \in 1..Len(dict) : InRange(dict[i], value)}

\* the label of the first matching item, None when there is none
FirstMatchingLabel(value, dict) ==
    IF MatchingRanges(value, dict) = {} THEN None
    ELSE dict[SetMin(MatchingRanges(value, dict))].label

(***************************************************************************)
(* C23.  classify_value of helperUtils, and the classify_value that        *)
(* polars_classify_column applies to every value of the column, return     *)
(* the label of the first range, in the dictionary's iteration order, with *)
(* lower <= value < upper, and None when no range holds the value.         *)
(***************************************************************************)
C23_FirstMatchingRangeWins ==
    /\ Made("classify_value") =>
           call.returned = FirstMatchingLabel(call.args.value, call.args.classification_dict)
    /\ Made("polars_classify_column") /\ call.args.new_col_name \in DOMAIN call.returned =>
           /\ Len(call.returned[call.args.new_col_name]) = Len(call.args.df[call.args.col_name])
           /\ \A i \in 1..Len(call.args.df[call.args.col_name]) :
                  call.returned[call.args.new_col_name][i]
                      = FirstMatchingLabel(call.args.df[call.args.col_name][i], call.args.ranges)

\* two ranges with different labels hold the value, and the first one's
\* label came back
C23_Witness ==
    /\ Made("classify_value")
    /\ Cardinality(MatchingRanges(call.args.value, call.args.classification_dict)) = 2
    /\ call.returned = call.args.classification_dict[1].label
    /\ call.returned # call.args.classification_dict[2].label

\* the value is the upper bound of the only range that reaches it: None
C23_UpperBoundOut ==
    /\ Made("classify_value")
    /\ Len(call.args.classification_dict) = 1
    /\ call.args.classification_dict[1].lower < call.args.value
    /\ call.args.classification_dict[1].upper = call.args.value
    /\ call.returned = None

\* a column classified by overlapping ranges, the first of which wins
C23_ColumnClassified ==
    /\ Made("polars_classify_column")
    /\ call.args.new_col_name = "class"
    /\ Cardinality(MatchingRanges(call.args.df["v"][1], call.args.ranges)) = 2
    /\ call.returned["class"][1] = call.args.ranges[1].label

=============================================================================
